---- MODULE Spec2Model ----
(***************************************************************************)
(* kgbsorta: lock state of the files of a share, kept as hardlinks in a    *)
(* hidden buddy directory (the store), and the two-phase cleanup pass.     *)
(*                                                                         *)
(* The file system is modelled as two trees, the share and its store.  A   *)
(* tree maps every path of a small universe (the root included) to a node: *)
(* absent, a directory, or a regular file with an inode number.  Two files *)
(* are hardlinks of each other exactly when their inode numbers are equal. *)
(* A node that is neither (a fifo, a socket, a device) has an inode too.   *)
(* The modification time belongs to the inode; it is kept as an age in     *)
(* half days.                                                              *)
(***************************************************************************)
EXTENDS Integers, Sequences, FiniteSets, TLC

VARIABLES
    share,      \* the tree under the share root
    store,      \* the tree under the store root (the root may be absent)
    age,        \* inode -> time since its mtime, in half days
    calls,      \* the API calls made so far, each with its result
    pc,         \* position of the cleanup pass
    days,       \* the days argument of the running cleanup pass
    todo,       \* nodes of the snapshot (store.subs, then share.subs) not yet visited
    done1,      \* store nodes phase 1 has visited
    done2,      \* share nodes phase 2 has visited
    tbd,        \* lines written to to_be_deleted_soon.txt
    raised,     \* the exception that ended the cleanup pass, "none" otherwise
    start,      \* the trees and ages at the moment the cleanup pass began
    procs       \* the ensure_link invocations that run side by side

vars == <<share, store, age, calls, pc, days, todo, done1, done2, tbd, raised, start,
         procs>>

\* the variables of the cleanup pass
cvars == <<pc, days, todo, done1, done2, tbd, raised, start>>

\* ------------------------------------------------------------------ bounds
MaxIno == 2         \* inode numbers of the files present initially
MaxCalls == 2       \* API calls in one behaviour
MaxAge == 4         \* largest initial age, in half days
MaxDays == 1        \* largest days argument of cleanup
MaxTargets == 2     \* largest number of targets of one lock or unlock

HalfDaysPerDay == 2

\* ------------------------------------------------------------------ paths
Manifest == <<"to_be_deleted_soon.txt">>
Root == <<>>
RelPaths == {<<"a">>, <<"a", "b">>, <<"c">>, Manifest}
AllPaths == RelPaths \cup {Root}

IsPrefix(p, q) == Len(p) <= Len(q) /\ SubSeq(q, 1, Len(p)) = p
Parent(p) == SubSeq(p, 1, Len(p) - 1)

\* traverse_path('foo/bar/baz') = ['foo', 'foo/bar', 'foo/bar/baz']; a relative
\* path is the sequence of its segments.
traverse_path(path) == [i \in 1..Len(path) |-> SubSeq(path, 1, i)]

\* ------------------------------------------------------------------ nodes
NoNode == [kind |-> "none", ino |-> 0]
DirNode == [kind |-> "dir", ino |-> 0]
FileNode(i) == [kind |-> "file", ino |-> i]

\* the inode of the special node of the model; the manifest of cleanup takes
\* MaxIno + 1 when the files have every number up to MaxIno
SpecialIno == MaxIno + 2

Inodes == 1..SpecialIno
Nodes == {NoNode, DirNode} \cup {FileNode(i) : i \in 1..MaxIno}

\* a node that is neither a regular file nor a directory (a fifo, a socket, a
\* device): os.path.exists is true of it, isfile and isdir are false.  It has
\* an inode, and with it an mtime and a ctime, like a regular file; where two
\* trees hold a special node, they hold links of one and the same.
SpecialNode == [kind |-> "other", ino |-> SpecialIno]

\* os.path.exists / isfile / isdir of the node at p in tree t
exists(t, p) ==
    /\ \A i \in 0..(Len(p) - 1) : t[SubSeq(p, 1, i)].kind = "dir"
    /\ t[p].kind # "none"
isfile(t, p) == exists(t, p) /\ t[p].kind = "file"
isdir(t, p) == exists(t, p) /\ t[p].kind = "dir"

\* os.stat(path).st_ino; 0 stands for the OSError of a missing path
st_ino(t, p) == IF exists(t, p) THEN t[p].ino ELSE 0

\* The result of a file system call or of a method: the tree afterwards, the
\* value returned and the exception raised ("none" when it returned).
Res(t, r, e) == [tree |-> t, ret |-> r, err |-> e]

\* ChildNode.mkdir
mkdir(t, p) ==
    IF isdir(t, Parent(p)) /\ ~exists(t, p)
    THEN Res([t EXCEPT ![p] = DirNode], FALSE, "none")
    ELSE Res(t, FALSE, "OSError")

\* ChildNode.remove: os.remove takes any node but a directory
remove(t, p) ==
    IF exists(t, p) /\ ~isdir(t, p)
    THEN Res([t EXCEPT ![p] = NoNode], FALSE, "none")
    ELSE Res(t, FALSE, "OSError")

\* an rmtree that takes the directory the node is in, and so its neighbours
rmtree_dirname(t, p) ==
    IF isdir(t, p)
    THEN Res([q \in DOMAIN t |->
                 IF IsPrefix(Parent(p), q) /\ q # Parent(p) THEN NoNode ELSE t[q]],
             FALSE, "none")
    ELSE Res(t, FALSE, "OSError")

\* ChildNode.rmdir(force=True): shutil.rmtree
rmtree(t, p) ==
    IF isdir(t, p)
    THEN Res([q \in DOMAIN t |-> IF IsPrefix(p, q) THEN NoNode ELSE t[q]],
             FALSE, "none")
    ELSE Res(t, FALSE, "OSError")

\* a link_to that copies the file to the path: a new file with an inode of its
\* own
link_to_copy(t, p, src) ==
    IF src.kind = "file" /\ isdir(t, Parent(p)) /\ ~exists(t, p)
    THEN Res([t EXCEPT ![p] = FileNode((src.ino % (MaxIno + 1)) + 1)], FALSE, "none")
    ELSE Res(t, FALSE, "OSError")

\* ChildNode.link_to(src): os.link(src.abspath, self.abspath); src is the
\* node found at the source path (NoNode when there is none).  os.link takes
\* any source but a directory: the link of a fifo is the fifo once more.
link_to(t, p, src) ==
    IF src.kind \in {"file", "other"} /\ isdir(t, Parent(p)) /\ ~exists(t, p)
    THEN Res([t EXCEPT ![p] = [kind |-> src.kind, ino |-> src.ino]], FALSE, "none")
    ELSE Res(t, FALSE, "OSError")

\* node.remove(); node.link_to(src)
remove_link(t, p, src) ==
    LET rm == remove(t, p) IN
    IF rm.err # "none" THEN rm ELSE link_to(rm.tree, p, src)

\* a link made without removing the directory in the way first
link_over_dir(t, p, src) == link_to(t, p, src)

\* node.rmdir(force=True); node.link_to(src)
rmtree_link(t, p, src) ==
    LET rm == rmtree(t, p) IN
    IF rm.err # "none" THEN rm ELSE link_to(rm.tree, p, src)

\* a heal that deletes the stray file and creates no directory in its place
remove_only(t, p) == remove(t, p)

\* node.remove(); node.mkdir()
remove_mkdir(t, p) ==
    LET rm == remove(t, p) IN
    IF rm.err # "none" THEN rm ELSE mkdir(rm.tree, p)

\* a comparison that takes any file of the right name for the hardlink
same_inode_name_only(t, p, src) == TRUE

\* os.stat(node.abspath).st_ino == os.stat(src.abspath).st_ino
same_inode(t, p, src) == st_ino(t, p) = src.ino

\* `return v` after the calls that gave r, unless one of them raised
Returning(r, v) == IF r.err = "none" THEN [r EXCEPT !.ret = v] ELSE r

\* ------------------------------------------------- Share.check_link
\* an iteration that goes on to the next sub path below a broken branch
check_link_step_no_break(t, rel_path, sub_path, src) ==
    IF Len(sub_path) = Len(rel_path)
    THEN IF ~(exists(t, sub_path) /\ isfile(t, sub_path)) THEN "break"
         ELSE IF src.kind = "none" THEN "raise"
         ELSE IF same_inode(t, sub_path, src) THEN "true"
         ELSE "next"
    ELSE "next"

\* One iteration of the loop of check_link over traverse_path(rel_path):
\* "true" and "raise" leave the loop by return or exception, "break" by break,
\* "next" goes on to the next sub path.
check_link_step(t, rel_path, sub_path, src) ==
    IF Len(sub_path) = Len(rel_path)
    THEN IF ~(exists(t, sub_path) /\ isfile(t, sub_path)) THEN "break"
         ELSE IF src.kind = "none" THEN "raise"
         ELSE IF same_inode(t, sub_path, src) THEN "true"
         ELSE "next"
    ELSE IF ~(exists(t, sub_path) /\ isdir(t, sub_path)) THEN "break"
         ELSE "next"

RECURSIVE check_link_from(_, _, _, _)
check_link_from(t, rel_path, i, src) ==
    IF i > Len(rel_path) THEN Res(t, FALSE, "none")
    ELSE LET step == check_link_step(t, rel_path, traverse_path(rel_path)[i], src)
         IN  CASE step = "true"  -> Res(t, TRUE, "none")
               [] step = "raise" -> Res(t, FALSE, "OSError")
               [] step = "break" -> Res(t, FALSE, "none")
               [] OTHER          -> check_link_from(t, rel_path, i + 1, src)

check_link(t, rel_path, src) == check_link_from(t, rel_path, 1, src)

\* the sub paths for which the loop of check_link builds a ChildNode and asks
\* the file system about it, from the i-th on
RECURSIVE check_link_nodes_from(_, _, _, _)
check_link_nodes_from(t, rel_path, i, src) ==
    IF i > Len(rel_path) THEN {}
    ELSE LET sub_path == traverse_path(rel_path)[i]
         IN  {sub_path} \cup
             (IF check_link_step(t, rel_path, sub_path, src) = "next"
              THEN check_link_nodes_from(t, rel_path, i + 1, src)
              ELSE {})

check_link_nodes(t, rel_path, src) == check_link_nodes_from(t, rel_path, 1, src)

\* ------------------------------------------------- Share.ensure_link
\* a leaf of ensure_link that relinks every file it finds, its own hardlink
\* included
ensure_link_leaf_always_relink(t, sub_path, src) ==
    IF ~exists(t, sub_path)
    THEN Returning(link_to(t, sub_path, src), TRUE)
    ELSE IF isfile(t, sub_path)
    THEN Returning(remove_link(t, sub_path, src), TRUE)
    ELSE Returning(rmtree_link(t, sub_path, src), TRUE)

\* the leaf of ensure_link: ret is TRUE when the method returns True here
ensure_link_leaf(t, sub_path, src) ==
    IF ~exists(t, sub_path)
    THEN Returning(link_to(t, sub_path, src), TRUE)
    ELSE IF isfile(t, sub_path)
    THEN IF src.kind = "none" THEN Res(t, FALSE, "OSError")
         ELSE IF ~same_inode(t, sub_path, src)
         THEN Returning(remove_link(t, sub_path, src), TRUE)
         ELSE Res(t, FALSE, "none")
    ELSE IF isdir(t, sub_path)
    THEN Returning(rmtree_link(t, sub_path, src), TRUE)
    ELSE Res(t, FALSE, "NotImplementedError")

\* a branch of ensure_link that creates missing directories only and leaves a
\* stray file where it is
ensure_link_branch_no_heal(t, sub_path) ==
    IF ~exists(t, sub_path) THEN mkdir(t, sub_path) ELSE Res(t, FALSE, "none")

\* a branch of ensure_link
ensure_link_branch(t, sub_path) ==
    IF ~exists(t, sub_path)
    THEN mkdir(t, sub_path)
    ELSE IF isfile(t, sub_path)
    THEN remove_mkdir(t, sub_path)
    ELSE Res(t, FALSE, "none")

RECURSIVE ensure_link_from(_, _, _, _)
ensure_link_from(t, rel_path, i, src) ==
    IF i > Len(rel_path) THEN Res(t, FALSE, "none")
    ELSE LET sub_path == traverse_path(rel_path)[i] IN
         IF Len(sub_path) = Len(rel_path)
         THEN ensure_link_leaf(t, sub_path, src)
         ELSE LET br == ensure_link_branch(t, sub_path) IN
              IF br.err # "none" THEN br
              ELSE ensure_link_from(br.tree, rel_path, i + 1, src)

ensure_link(t, rel_path, src) == ensure_link_from(t, rel_path, 1, src)

\* the sub paths the loop of ensure_link builds a ChildNode for and handles,
\* from the i-th on: it goes on after a branch unless the branch raised
RECURSIVE ensure_link_nodes_from(_, _, _, _)
ensure_link_nodes_from(t, rel_path, i, src) ==
    IF i > Len(rel_path) THEN {}
    ELSE LET sub_path == traverse_path(rel_path)[i] IN
         IF Len(sub_path) = Len(rel_path) THEN {sub_path}
         ELSE LET br == ensure_link_branch(t, sub_path) IN
              {sub_path} \cup
              (IF br.err # "none" THEN {}
               ELSE ensure_link_nodes_from(br.tree, rel_path, i + 1, src))

ensure_link_nodes(t, rel_path, src) == ensure_link_nodes_from(t, rel_path, 1, src)

\* ------------------------------------------ FSNode.ensure_link (src/old.py)
\* The first version of the program has an ensure_link of its own, a method of
\* the directory node self that takes the first name of rel_path and calls
\* itself on the node of that name with the rest.  FSNode extends Directory of
\* the library fs_hopper, which is no part of the repository: exists, is_file,
\* is_dir, delete and mkdir are taken for os.path.exists, isfile, isdir,
\* os.remove and os.mkdir.  At the leaf
\*     if not os.stat(sub_name).st_ino == os.stat(src.name):
\* compares a number with a stat result, which are never equal: a regular file
\* at the leaf is removed and linked again whatever its inode, and True is
\* returned; after the link of a leaf that was absent the method returns False.
RECURSIVE FSNode_ensure_link(_, _, _, _)
FSNode_ensure_link(t, self, rel_path, src) ==
    LET sub_name == Append(self, Head(rel_path))
        rest == Tail(rel_path)
    IN  IF rest = <<>>
        THEN IF exists(t, sub_name)
             THEN IF isfile(t, sub_name)
                  THEN IF src.kind = "none" THEN Res(t, FALSE, "OSError")
                       ELSE Returning(remove_link(t, sub_name, src), TRUE)
                  ELSE IF isdir(t, sub_name)
                  THEN Returning(rmtree_link(t, sub_name, src), TRUE)
                  ELSE Res(t, FALSE, "NotImplementedError")
             ELSE Returning(link_to(t, sub_name, src), FALSE)
        ELSE LET br == IF exists(t, sub_name)
                       THEN IF isfile(t, sub_name) THEN remove_mkdir(t, sub_name)
                            ELSE Res(t, FALSE, "none")
                       ELSE mkdir(t, sub_name)
             IN  IF br.err # "none" THEN br
                 ELSE FSNode_ensure_link(br.tree, sub_name, rest, src)

\* ------------------------------------------------- Share.ensure_unlink
\* an ensure_unlink that reports the lock and leaves the store file in place
ensure_unlink_keep(t, rel_path, src) ==
    LET chk == check_link(t, rel_path, src) IN
    IF chk.err # "none" THEN chk ELSE Res(t, chk.ret, "none")

\* an ensure_unlink that takes the directory of the hardlink away with it
ensure_unlink_prune(t, rel_path, src) ==
    LET chk == check_link(t, rel_path, src) IN
    IF chk.err # "none" THEN chk
    ELSE IF chk.ret
    THEN IF Len(rel_path) > 1
         THEN Returning(rmtree(t, Parent(rel_path)), TRUE)
         ELSE Returning(remove(t, rel_path), TRUE)
    ELSE Res(t, FALSE, "none")

\* an ensure_unlink that deletes whatever regular file the store has at the path
ensure_unlink_any(t, rel_path, src) ==
    IF isfile(t, rel_path) THEN Returning(remove(t, rel_path), TRUE)
    ELSE Res(t, FALSE, "none")

\* ensure_unlink: the store file goes only when check_link finds the hardlink
ensure_unlink(t, rel_path, src) ==
    LET chk == check_link(t, rel_path, src) IN
    IF chk.err # "none" THEN chk
    ELSE IF chk.ret THEN Returning(remove(t, rel_path), TRUE)
    ELSE Res(t, FALSE, "none")

\* Share.store: Store(store_path, self) runs Share.__init__, which raises
\* IOError unless the store root is a directory
store_ok(st) == isdir(st, Root)

\* node.share.store: the store property raises IOError when the store root is
\* no directory, and the method (with result r) is not called
via_store(st, r) == IF store_ok(st) THEN r ELSE Res(st, FALSE, "IOError")

\* Share.__init__ of the package: IOError unless the path is a directory
Share_init(t, p) == IF ~isdir(t, p) THEN "IOError" ELSE "none"

\* Share.__init__ of src/nodes.py:
\*     if not os.path.exists(self.path) and os.path.isdir(self.path): raise IOError
Share_init_flat(t, p) ==
    IF ~exists(t, p) /\ isdir(t, p) THEN "IOError" ELSE "none"

\* node.share.store of src/nodes.py: the Store is constructed by that
\* Share.__init__, whether its directory exists or not, and the method (with
\* result r) is called
via_store_flat(st, r) ==
    IF Share_init_flat(st, Root) = "none" THEN r ELSE Res(st, FALSE, "IOError")

\* ------------------------------------------------------------ initial states
\* A tree is well formed when every node that is present hangs in a directory.
WellFormed(t) ==
    \A p \in RelPaths : t[p].kind # "none" => t[Parent(p)].kind = "dir"

\* the well-formed trees with root node r and nothing outside the paths ps
Trees(r, ps) ==
    {t \in [AllPaths -> Nodes] :
        /\ t[Root] = r
        /\ WellFormed(t)
        /\ \A p \in RelPaths \ ps : t[p] = NoNode}

UserPaths == RelPaths \ {Manifest}

\* the inodes of the nodes of a tree that are no directory
inodes_of(t) == {t[p].ino : p \in {q \in RelPaths : t[q].kind \in {"file", "other"}}}

NoStart == [share |-> <<>>, store |-> <<>>, age |-> <<>>]

\* The share is a directory (Share.__init__); the store holds any leftovers, or
\* does not exist yet.
Init ==
    /\ share \in Trees(DirNode, UserPaths)
    /\ store \in Trees(DirNode, UserPaths) \cup Trees(NoNode, {})
    /\ age = [i \in Inodes |-> 0]
    /\ calls = <<>>
    /\ pc = "idle"
    /\ days = 0
    /\ todo = {}
    /\ done1 = {}
    /\ done2 = {}
    /\ tbd = <<>>
    /\ raised = "none"
    /\ start = NoStart
    /\ procs = <<>>

\* --------------------------------------------------- lock, unlock, lock state
\* the record of one call of a Store method on the share file at path p
Call(name, p, r) ==
    [op |-> name, path |-> p, ret |-> r.ret, err |-> r.err,
     share |-> share, before |-> store, after |-> r.tree]

\* node.share.store.<method>(node.rel_path, node) for the share file at p, r
\* being what the method does
OnStore(name, p, r) ==
    /\ pc = "idle"
    /\ Len(calls) < MaxCalls
    /\ isfile(share, p)
    /\ store' = r.tree
    /\ calls' = Append(calls, Call(name, p, r))
    /\ UNCHANGED <<share, age, cvars, procs>>

\* KgbSorta.cleanup: node.share.store.check_link(node.rel_path, node)
IsLocked(p) ==
    OnStore("check_link", p, via_store(store, check_link(store, p, share[p])))

\* KgbSorta.lock: node.share.store.ensure_link(node.rel_path, node)
EnsureLocked(p) ==
    OnStore("ensure_link", p, via_store(store, ensure_link(store, p, share[p])))

\* KgbSorta.unlock: node.share.store.ensure_unlink(node.rel_path, node)
EnsureUnlocked(p) ==
    OnStore("ensure_unlink", p, via_store(store, ensure_unlink(store, p, share[p])))

\* src/old.py: store.ensure_link(rel_path, src) on the node of an existing
\* store directory, for the share file at p
FSNodeEnsureLink(p) ==
    /\ store_ok(store)
    /\ OnStore("FSNode.ensure_link", p, FSNode_ensure_link(store, Root, p, share[p]))

Next ==
    \/ \E p \in RelPaths : IsLocked(p)
    \/ \E p \in RelPaths : EnsureLocked(p)
    \/ \E p \in RelPaths : EnsureUnlocked(p)
    \/ \E p \in RelPaths : FSNodeEnsureLink(p)

Spec == Init /\ [][Next]_vars

\* ------------------------------------------- a store with special nodes in it
\* the well-formed store trees that hold a special node somewhere
SpecialTrees ==
    {t \in [AllPaths -> Nodes \cup {SpecialNode}] :
        /\ t[Root] = DirNode
        /\ WellFormed(t)
        /\ t[Manifest] = NoNode
        /\ \E p \in UserPaths : t[p] = SpecialNode}

\* Somebody put a fifo, a socket or a device into the store.
InitSpecial ==
    /\ share \in Trees(DirNode, UserPaths)
    /\ store \in SpecialTrees
    /\ age = [i \in Inodes |-> 0]
    /\ calls = <<>>
    /\ pc = "idle"
    /\ days = 0
    /\ todo = {}
    /\ done1 = {}
    /\ done2 = {}
    /\ tbd = <<>>
    /\ raised = "none"
    /\ start = NoStart
    /\ procs = <<>>

SpecSpecial == InitSpecial /\ [][Next]_vars

\* ------------------------------------------------------- KgbSorta.cleanup
Header == "all files listed here will be deleted within the next 24h!"

\* the days of a cleanup that is given none
DEFAULT_DAYS == 7

\* older than DEFAULT_DAYS, in half days
OldAge == HalfDaysPerDay * (DEFAULT_DAYS + 1)

\* Share.subs: every entry that os.walk lists as a file, as relative paths.
\* os.walk lists as a file whatever is no directory, special nodes too.
subs(t) == {p \in RelPaths : exists(t, p) /\ ~isdir(t, p)}

\* os.walk lists the files of a directory before it descends: the nodes of a
\* snapshot that may come next are those with no file of an ancestor directory
\* left.  The order within one directory is the order of os.listdir: any.
walk_next(nodes) ==
    {p \in nodes : \A q \in nodes :
        ~(IsPrefix(Parent(q), Parent(p)) /\ Parent(q) # Parent(p))}

\* an age test with the comparison turned round
older_than_inverted(ag, ino, d) == (ag[ino] \div HalfDaysPerDay) < d

\* the time since os.path.getmtime of a node that is no directory, in half
\* days: that of its inode, for a regular file and for a special node alike
since_mtime(ag, ino) == ag[ino]

\* ChildNode.older_than: time_delta.days > days, time_delta.days being the
\* whole days of the time since the mtime
older_than(ag, ino, d) == (since_mtime(ag, ino) \div HalfDaysPerDay) > d

\* ChildNode.older_than of src/nodes.py: the same test on os.path.getctime, the
\* time of the last change of the inode (a link, an unlink, a chmod), ctime
\* being the half days since then
older_than_flat(ctime, d) == (ctime \div HalfDaysPerDay) > d

\* the inode numbers no node carries
free_inos(sh, st) == (1..(MaxIno + 1)) \ (inodes_of(sh) \cup inodes_of(st))

\* an inode number no node carries
fresh_ino(sh, st) ==
    CHOOSE i \in free_inos(sh, st) : \A j \in free_inos(sh, st) : i <= j

\* open(to_be_deleted, 'w'): truncates the file that is there, creates it
\* otherwise; either way its mtime is now.  A directory there is an IOError.
open_manifest(sh, st, ag) ==
    IF isdir(sh, Manifest)
    THEN [share |-> sh, age |-> ag, err |-> "IOError"]
    ELSE IF isfile(sh, Manifest)
    THEN [share |-> sh, age |-> [ag EXCEPT ![sh[Manifest].ino] = 0], err |-> "none"]
    ELSE [share |-> [sh EXCEPT ![Manifest] = FileNode(fresh_ino(sh, st))],
          age |-> [ag EXCEPT ![fresh_ino(sh, st)] = 0],
          err |-> "none"]

\* the body of the phase 2 loop for one node of the share snapshot, deleting
\* every aged file whether locked or not
prune_node_unguarded(sh, st, ag, p, d) ==
    IF ~exists(sh, p) THEN Res(sh, FALSE, "OSError")
    ELSE LET rm == IF older_than(ag, sh[p].ino, d) THEN remove(sh, p)
                   ELSE Res(sh, FALSE, "none")
         IN  IF rm.err # "none" THEN rm
             ELSE IF ~exists(rm.tree, p) THEN Res(rm.tree, FALSE, "OSError")
             ELSE IF older_than(ag, rm.tree[p].ino, d - 1)
             THEN Res(rm.tree, FALSE, "AttributeError")
             ELSE rm

\* the body of the phase 2 loop for one node of the share snapshot:
\*     if node.share.store.check_link(node.rel_path, node): continue
\*     if node.older_than(days): node.remove()
\*     if node.older_than(days - 1): tbd_file.write(node.relpath + '\n')
\* older_than reads the mtime of the path, an OSError once the file is removed;
\* a ChildNode has no attribute relpath.
prune_node(sh, st, ag, p, d) ==
    LET chk == via_store(st, check_link(st, p, sh[p]))
    IN  IF chk.err # "none" THEN Res(sh, FALSE, chk.err)
        ELSE IF chk.ret THEN Res(sh, FALSE, "none")
        ELSE IF ~exists(sh, p) THEN Res(sh, FALSE, "OSError")
        ELSE LET rm == IF older_than(ag, sh[p].ino, d) THEN remove(sh, p)
                       ELSE Res(sh, FALSE, "none")
             IN  IF rm.err # "none" THEN rm
                 ELSE IF ~exists(rm.tree, p) THEN Res(rm.tree, FALSE, "OSError")
                 ELSE IF older_than(ag, rm.tree[p].ino, d - 1)
                 THEN Res(rm.tree, FALSE, "AttributeError")
                 ELSE rm

\* a first loop that may be left with store nodes unvisited
phase1_over_early(nodes) == TRUE

\* phase 1 ends when the loop over store.subs has visited every node
phase1_over(nodes) == nodes = {}

\* share = get_share(share_path); store = share.store; the manifest is opened
\* and its header written; store.subs is listed for phase 1.  cs is the record
\* of calls once the pass has begun.
StartPass(d, cs) ==
    /\ pc = "idle"
    /\ calls = <<>>
    /\ isfile(share, Manifest) \/ free_inos(share, store) # {}
    /\ days' = d
    /\ start' = [share |-> share, store |-> store, age |-> age]
    /\ IF ~store_ok(store)
       THEN /\ pc' = "failed_start" /\ raised' = "IOError"
            /\ UNCHANGED <<share, age, tbd, todo>>
       ELSE LET o == open_manifest(share, store, age) IN
            IF o.err # "none"
            THEN /\ pc' = "failed_start" /\ raised' = o.err
                 /\ UNCHANGED <<share, age, tbd, todo>>
            ELSE /\ share' = o.share /\ age' = o.age
                 /\ tbd' = <<Header>>
                 /\ todo' = subs(store)
                 /\ pc' = "phase1" /\ raised' = "none"
    /\ calls' = cs
    /\ UNCHANGED <<store, done1, done2, procs>>

\* KgbSorta().cleanup(share_path, days) called through the API
CleanupStart(d) == StartPass(d, calls)

\* for node in store.subs: node.share.share.ensure_link(node.rel_path, node)
CleanupRelink ==
    /\ pc = "phase1"
    /\ \E p \in walk_next(todo) :
        LET r == ensure_link(share, p, store[p]) IN
        /\ share' = r.tree
        /\ todo' = todo \ {p}
        /\ done1' = done1 \cup {p}
        /\ IF r.err # "none"
           THEN pc' = "failed_phase1" /\ raised' = r.err
           ELSE UNCHANGED <<pc, raised>>
    /\ UNCHANGED <<store, age, calls, days, done2, tbd, start, procs>>

\* the first loop is over: share.subs is listed for phase 2
CleanupScan ==
    /\ pc = "phase1"
    /\ phase1_over(todo)
    /\ todo' = subs(share)
    /\ pc' = "phase2"
    /\ UNCHANGED <<share, store, age, calls, days, done1, done2, tbd, raised, start, procs>>

\* for node in share.subs: the body of the second loop
CleanupPrune ==
    /\ pc = "phase2"
    /\ \E p \in walk_next(todo) :
        LET r == prune_node(share, store, age, p, days) IN
        /\ share' = r.tree
        /\ todo' = todo \ {p}
        /\ done2' = done2 \cup {p}
        /\ IF r.err # "none"
           THEN pc' = "failed_phase2" /\ raised' = r.err
           ELSE UNCHANGED <<pc, raised>>
    /\ UNCHANGED <<store, age, calls, days, done1, tbd, start, procs>>

\* tbd_file.close()
CleanupEnd ==
    /\ pc = "phase2"
    /\ todo = {}
    /\ pc' = "done"
    /\ UNCHANGED <<share, store, age, calls, days, todo, done1, done2, tbd, raised, start, procs>>

\* ------------------------------------- KgbSorta.cleanup of src/kgbsorta.py
\* The older copy of the program has a cleanup of its own: no days argument, no
\* manifest, and an age test on the ctime.  ct gives for every inode the half
\* days since its ctime.

\* the time since os.path.getctime of a node that is no directory: that of
\* its inode, for a regular file and for a special node alike
since_ctime(ct, ino) == ct[ino]

\* os.link and os.remove change the link count of the inode they act on, whose
\* ctime is then now: the inodes of the files that were taken from a path or
\* put at a path between the trees before and after
touch_ctime(ct, before, after) ==
    [i \in DOMAIN ct |->
        IF \E q \in RelPaths :
              /\ before[q] # after[q]
              /\ \E n \in {before[q], after[q]} :
                    n.kind \in {"file", "other"} /\ n.ino = i
        THEN 0 ELSE ct[i]]

\* what one run of a loop of cleanup leaves: the share, the ctimes, the
\* exception raised and the phase that raised it
FlatRes(sh, ct, e, ph) == [share |-> sh, ctime |-> ct, err |-> e, phase |-> ph]

\* for node in share.subs:
\*     if node.share.store.check_link(node.rel_path, node): continue
\*     if node.older_than(DEFAULT_DAYS): node.remove()
\* over the nodes left of the snapshot, in any order os.walk may give.  The
\* Store of this copy is constructed whether its directory exists or not.
RECURSIVE cleanup_flat_prune(_, _, _, _, _)
cleanup_flat_prune(sh, st, ct, nodes, d) ==
    IF nodes = {} THEN {FlatRes(sh, ct, "none", 2)}
    ELSE UNION {
        IF check_link(st, p, sh[p]).ret
        THEN cleanup_flat_prune(sh, st, ct, nodes \ {p}, d)
        ELSE IF older_than_flat(since_ctime(ct, sh[p].ino), d)
        THEN LET rm == remove(sh, p) IN
             IF rm.err # "none"
             THEN {FlatRes(rm.tree, ct, rm.err, 2)}
             ELSE cleanup_flat_prune(rm.tree, st, touch_ctime(ct, sh, rm.tree),
                                     nodes \ {p}, d)
        ELSE cleanup_flat_prune(sh, st, ct, nodes \ {p}, d)
        : p \in walk_next(nodes)}

\* for node in store.subs: node.share.share.ensure_link(node.rel_path, node)
\* over the nodes left of the snapshot, and then the second loop over the
\* share.subs of that moment
RECURSIVE cleanup_flat_relink(_, _, _, _, _)
cleanup_flat_relink(sh, st, ct, nodes, d) ==
    IF nodes = {} THEN cleanup_flat_prune(sh, st, ct, subs(sh), d)
    ELSE UNION {
        LET r == ensure_link(sh, p, st[p]) IN
        IF r.err # "none"
        THEN {FlatRes(r.tree, touch_ctime(ct, sh, r.tree), r.err, 1)}
        ELSE cleanup_flat_relink(r.tree, st, touch_ctime(ct, sh, r.tree),
                                 nodes \ {p}, d)
        : p \in walk_next(nodes)}

\* KgbSorta.cleanup(share_path) of src/kgbsorta.py: every way the call can go
cleanup_flat(sh, st, ct) ==
    cleanup_flat_relink(sh, st, ct, subs(st), DEFAULT_DAYS)

\* the ctimes a file system can show: young or older than the default, and
\* nothing for an inode that no node carries
CTimes(sh, st) ==
    {ct \in [Inodes -> {0, OldAge}] :
        \A i \in Inodes \ (inodes_of(sh) \cup inodes_of(st)) : ct[i] = 0}

\* One call of the cleanup of src/kgbsorta.py, from its first line to its
\* return or to the exception that ends it, the files having the ctimes ct.
\* cs is the record of calls once the call is over.
FlatPass(cs) ==
    /\ pc = "idle"
    /\ calls = <<>>
    /\ \E ct \in CTimes(share, store) :
        \E r \in cleanup_flat(share, store, ct) :
            /\ start' = [share |-> share, store |-> store, age |-> age, ctime |-> ct]
            /\ share' = r.share
            /\ raised' = r.err
            /\ pc' = IF r.err = "none" THEN "done"
                     ELSE IF r.phase = 1 THEN "failed_phase1" ELSE "failed_phase2"
    /\ days' = DEFAULT_DAYS
    /\ calls' = cs
    /\ UNCHANGED <<store, age, todo, done1, done2, tbd, procs>>

\* The initial ages: young, the oldest, and half a day less than the oldest.
\* An inode that no node carries has none.
Ages(sh, st) ==
    {ag \in [Inodes -> {0, MaxAge - 1, MaxAge}] :
        \A i \in Inodes \ (inodes_of(sh) \cup inodes_of(st)) : ag[i] = 0}

\* The inode numbers of the regular files say which files are hardlinks of
\* each other and nothing else: of the trees that differ in the numbering only,
\* one is taken, the one whose numbers come in ascending order, none left out,
\* when the share and then the store are read path by path.
InodesInOrder(sh, st) ==
    LET paths == <<(<<"a">>), <<"a", "b">>, <<"c">>>>
        nodes == [k \in 1..6 |-> IF k <= 3 THEN sh[paths[k]] ELSE st[paths[k - 3]]]
        first == [i \in 1..MaxIno |->
                    IF \E k \in 1..6 : nodes[k] = FileNode(i)
                    THEN CHOOSE k \in 1..6 :
                            /\ nodes[k] = FileNode(i)
                            /\ \A j \in 1..(k - 1) : nodes[j] # FileNode(i)
                    ELSE 7]
    IN  \A i \in 2..MaxIno : first[i] < 7 => first[i - 1] < first[i]

\* The share as users and an earlier pass left it: the manifest of an earlier
\* pass (with an inode of its own) may still be there, or a directory of its
\* name.  Share and store may hold special nodes.
InitCleanup ==
    /\ \E t \in Trees(DirNode, UserPaths) \cup SpecialTrees :
         \E m \in {NoNode, FileNode(MaxIno + 1), DirNode} :
            share = [t EXCEPT ![Manifest] = m]
    /\ store \in Trees(DirNode, UserPaths) \cup Trees(NoNode, {}) \cup SpecialTrees
    /\ InodesInOrder(share, store)
    /\ age \in Ages(share, store)
    /\ calls = <<>>
    /\ pc = "idle"
    /\ days = 0
    /\ todo = {}
    /\ done1 = {}
    /\ done2 = {}
    /\ tbd = <<>>
    /\ raised = "none"
    /\ start = NoStart
    /\ procs = <<>>

NextCleanup ==
    \/ \E d \in 0..MaxDays : CleanupStart(d)
    \/ CleanupRelink
    \/ CleanupScan
    \/ CleanupPrune
    \/ CleanupEnd

SpecCleanup == InitCleanup /\ [][NextCleanup]_vars

\* ------------------------------------------- KgbSorta.lock, KgbSorta.unlock
\* File names as the code handles them are strings; a string is modelled as
\* the sequence of its characters.  The names of the path universe have one
\* character each.
Sep == "/"

\* the path of the one share of the configuration, /s
SharePath == <<Sep, "s">>

\* os.path.sep.join(segments)
RECURSIVE join(_)
join(p) ==
    IF p = <<>> THEN <<>>
    ELSE IF Len(p) = 1 THEN <<p[1]>>
    ELSE <<p[1], Sep>> \o join(Tail(p))

\* path.split(os.path.sep), for names of one character: the characters of the
\* string that are no separator
RECURSIVE split(_)
split(str) ==
    IF str = <<>> THEN <<>>
    ELSE IF Head(str) = Sep THEN split(Tail(str))
    ELSE <<Head(str)>> \o split(Tail(str))

\* ChildNode.abspath: os.path.join(self.share.path, self.rel_path)
abspath(p) == SharePath \o <<Sep>> \o join(p)

\* an existing file next to the share directory, inside no share: /x
Outside == <<Sep, "x">>

\* an existing file in a directory next to the share whose name begins with the
\* name of the share: /s2/c
Sibling == <<Sep, "s", "2", Sep, "c">>

\* what lock and unlock may be given: the share, paths below it, and the two
\* outsiders
Targets == {abspath(p) : p \in UserPaths} \cup {SharePath, Outside, Sibling}
Batches == UNION {[1..n -> Targets] : n \in 1..MaxTargets}

\* str.startswith(prefix)
startswith(str, prefix) == IsPrefix(prefix, str)

\* the string names the share directory or something below it
Below(str) == str = SharePath \/ startswith(str, SharePath \o <<Sep>>)

\* os.path.exists(path) for an absolute path of the file system
path_exists(sh, path) ==
    IF Below(path)
    THEN exists(sh, split(SubSeq(path, Len(SharePath) + 1, Len(path))))
    ELSE path \in {Outside, Sibling}

\* get_share(path): IOError for a path that does not exist, the share when the
\* path starts with the path of the share, None otherwise
get_share(sh, path) ==
    IF ~path_exists(sh, path) THEN "IOError"
    ELSE IF startswith(path, SharePath) THEN "share"
    ELSE "None"

\* Share.rel_path(path): path[len(self.path) + 1:]
rel_path(path) == SubSeq(path, Len(SharePath) + 2, Len(path))

\* ChildNode.__init__: a leading separator of rel_path is dropped; the node is
\* known by the segments of its relative path
ChildNode(rel) ==
    split(IF rel # <<>> /\ Head(rel) = Sep THEN Tail(rel) ELSE rel)

\* get_path(path): the ChildNode of the path in its share; IOError from
\* get_share, or for a path inside no share
get_path(sh, path) ==
    IF get_share(sh, path) = "share"
    THEN [err |-> "none", node |-> ChildNode(rel_path(path))]
    ELSE [err |-> "IOError", node |-> <<>>]

\* the candidates of a target: the files below a directory (parent_node.subs),
\* the node itself when it is a regular file
candidates(sh, t) ==
    IF isdir(sh, t) THEN {q \in RelPaths : IsPrefix(t, q) /\ isfile(sh, q)}
    ELSE IF isfile(sh, t) THEN {t}
    ELSE {}

\* node.share.store.ensure_link / ensure_unlink (node.rel_path, node), for the
\* candidates one after the other; the first exception ends the loop.  The
\* candidates come in the order of os.walk, which within one directory is the
\* order of os.listdir, any order: the operator gives every result the loop can
\* have.
\* The repository has the two methods twice, in the package and in
\* src/kgbsorta.py, line for line the same; copy says which is meant, and with
\* it which Share.__init__ the store property runs.
\* The methods of Share work on the directory of the object they are called
\* on: the file system of a call is the tree below the share and the tree below
\* its store, and root says which of the two a method call changes.
FileSystem(sh, st) == [share |-> sh, store |-> st]

\* what a call leaves: both trees, the value returned and the exception raised
Out(fs, r, e) == [share |-> fs.share, tree |-> fs.store, ret |-> r, err |-> e]

\* a store property that gives the directory of the share itself
Share_store_self(root) == root

\* Share.store of the share at root:
\*     store_path = os.path.join(prefix, '.' + basename); return Store(store_path, self)
\* the hidden directory next to the share, never the share
Share_store(root) == IF root = "share" THEN "store" ELSE "none"

RECURSIVE on_candidates(_, _, _, _, _)
on_candidates(copy, name, sh, st, nodes) ==
    IF nodes = {} THEN {Out(FileSystem(sh, st), FALSE, "none")}
    ELSE UNION {
        LET fs == FileSystem(sh, st)
            node == get_path(sh, abspath(this_path))
            root == Share_store("share")
            call == IF name = "lock"
                    THEN ensure_link(fs[root], node.node, sh[node.node])
                    ELSE ensure_unlink(fs[root], node.node, sh[node.node])
            r == IF node.err # "none" THEN Res(fs[root], FALSE, node.err)
                 ELSE IF copy = "flat" THEN via_store_flat(fs[root], call)
                 ELSE via_store(fs[root], call)
            after == [fs EXCEPT ![root] = r.tree]
        IN  IF r.err # "none" THEN {Out(after, FALSE, r.err)}
            ELSE on_candidates(copy, name, after.share, after.store,
                               nodes \ {this_path})
        : this_path \in walk_next(nodes)}

\* the body of `for given_file in files` in lock (name = "lock") and unlock:
\* every result it can have
on_target(copy, name, sh, st, given_file) ==
    LET parent_node == get_path(sh, given_file) IN
    IF parent_node.err # "none"
    THEN {Out(FileSystem(sh, st), FALSE, parent_node.err)}
    ELSE IF ~(isdir(sh, parent_node.node) \/ isfile(sh, parent_node.node))
    THEN {Out(FileSystem(sh, st), FALSE, "NotImplementedError")}
    ELSE on_candidates(copy, name, sh, st, candidates(sh, parent_node.node))

\* `for given_file in files`, from the i-th target on: nothing catches an
\* exception, so the first one raised ends the call
RECURSIVE on_targets(_, _, _, _, _, _)
on_targets(copy, name, sh, st, files, i) ==
    IF i > Len(files) THEN {Out(FileSystem(sh, st), FALSE, "none")}
    ELSE UNION {
        IF r.err # "none" THEN {r}
        ELSE on_targets(copy, name, r.share, r.tree, files, i + 1)
        : r \in on_target(copy, name, sh, st, files[i])}

\* KgbSorta.lock(*files) and KgbSorta.unlock(*files): the results the call can
\* have
lock(sh, st, files) == on_targets("package", "lock", sh, st, files, 1)
unlock(sh, st, files) == on_targets("package", "unlock", sh, st, files, 1)

\* KgbSorta.lock(*files) and KgbSorta.unlock(*files) of src/kgbsorta.py, with
\* the Share and Store of src/nodes.py
lock_flat(sh, st, files) == on_targets("flat", "lock", sh, st, files, 1)
unlock_flat(sh, st, files) == on_targets("flat", "unlock", sh, st, files, 1)

\* one call of lock or unlock with the targets files, results being what it
\* can do
Batch(name, files, results) ==
    /\ pc = "idle"
    /\ calls = <<>>
    /\ \E r \in results :
        /\ share' = r.share
        /\ store' = r.tree
        /\ calls' = Append(calls, Call(name, files, r))
    /\ UNCHANGED <<age, cvars, procs>>

Lock(files) == Batch("lock", files, lock(share, store, files))
Unlock(files) == Batch("unlock", files, unlock(share, store, files))

\* the same calls on the KgbSorta of src/kgbsorta.py
LockFlat(files) == Batch("lock_flat", files, lock_flat(share, store, files))
UnlockFlat(files) == Batch("unlock_flat", files, unlock_flat(share, store, files))

NextBatch ==
    \/ \E files \in Batches : Lock(files)
    \/ \E files \in Batches : Unlock(files)
    \/ \E files \in Batches : LockFlat(files)
    \/ \E files \in Batches : UnlockFlat(files)

\* The store may hold special nodes: a loop over several candidates then ends
\* at the first one that has such a node in its way.
InitBatch ==
    /\ share \in Trees(DirNode, UserPaths)
    /\ store \in Trees(DirNode, UserPaths) \cup Trees(NoNode, {}) \cup SpecialTrees
    /\ age = [i \in Inodes |-> 0]
    /\ calls = <<>>
    /\ pc = "idle"
    /\ days = 0
    /\ todo = {}
    /\ done1 = {}
    /\ done2 = {}
    /\ tbd = <<>>
    /\ raised = "none"
    /\ start = NoStart
    /\ procs = <<>>

SpecBatch == InitBatch /\ [][NextBatch]_vars

\* ------------------------------------------------------- the command line
\* the -d DAYS option of the cleanup command: a number, or not given
NoOption == -1
DaysOptions == (0..MaxDays) \cup {NoOption}

\* The exit status of the program.  Every command runs inside
\*     try: ... except Exception as e: print e.message
\* so an exception of a command is printed and the program runs to its end;
\* only the SystemExit of docopt for a wrong usage passes the handler.
exit_status(err) == IF err = "DocoptExit" THEN 1 ELSE 0

\* the program ends: what was raised, and the status it exits with
Exit(cmd, err) == [op |-> "exit", cmd |-> cmd, err |-> err, status |-> exit_status(err)]

\* kgbsorter lock FILE... / kgbsorter unlock FILE..., results being what the
\* method can do
MainBatch(name, files, results) ==
    /\ pc = "idle"
    /\ calls = <<>>
    /\ \E r \in results :
        /\ share' = r.share
        /\ store' = r.tree
        /\ calls' = <<Call(name, files, r), Exit(name, r.err)>>
    /\ pc' = "exit"
    /\ UNCHANGED <<age, days, todo, done1, done2, tbd, raised, start, procs>>

MainLock(files) == MainBatch("lock", files, lock(share, store, files))
MainUnlock(files) == MainBatch("unlock", files, unlock(share, store, files))

\* kgbsorter cleanup SHARE [-d DAYS]: sorta.cleanup(args['SHARE']), the option
\* is not handed on and days takes its default
MainCleanup(option) ==
    StartPass(DEFAULT_DAYS, <<[op |-> "cleanup", option |-> option]>>)

\* kgbsorter cleanup SHARE [-d DAYS] of src/kgbsorta.py: the same line of
\* __main__, and a cleanup that has no days to be given
MainCleanupFlat(option) == FlatPass(<<[op |-> "cleanup", option |-> option]>>)

\* the cleanup command is over, by return or by exception
MainCleanupExit ==
    /\ pc \in {"done", "failed_start", "failed_phase1", "failed_phase2"}
    /\ calls' = Append(calls, Exit("cleanup", raised))
    /\ pc' = "exit"
    /\ UNCHANGED <<share, store, age, days, todo, done1, done2, tbd, raised, start, procs>>

\* a command line docopt does not accept
MainUsage ==
    /\ pc = "idle"
    /\ calls = <<>>
    /\ calls' = <<Exit("usage", "DocoptExit")>>
    /\ pc' = "exit"
    /\ UNCHANGED <<share, store, age, days, todo, done1, done2, tbd, raised, start, procs>>

\* a store that holds nothing but hardlinks of share files, in directories as
\* the share has them
LockStores(sh) ==
    {st \in Trees(DirNode, UserPaths) :
        \A p \in UserPaths : st[p] = NoNode \/ (st[p] = sh[p] /\ exists(sh, p))}

\* The share with files and special nodes young, a few days old and older than
\* the default; the store holds locks of some files, or does not exist.
InitMain ==
    /\ share \in Trees(DirNode, UserPaths) \cup SpecialTrees
    /\ store \in LockStores(share) \cup Trees(NoNode, {})
    /\ age \in {ag \in [Inodes -> {0, MaxAge, OldAge}] :
                   \A i \in Inodes \ inodes_of(share) : ag[i] = 0}
    /\ calls = <<>>
    /\ pc = "idle"
    /\ days = 0
    /\ todo = {}
    /\ done1 = {}
    /\ done2 = {}
    /\ tbd = <<>>
    /\ raised = "none"
    /\ start = NoStart
    /\ procs = <<>>

NextMain ==
    \/ \E t \in Targets : MainLock(<<t>>)
    \/ \E t \in Targets : MainUnlock(<<t>>)
    \/ \E option \in DaysOptions : MainCleanup(option)
    \/ \E option \in DaysOptions : MainCleanupFlat(option)
    \/ CleanupRelink
    \/ CleanupScan
    \/ CleanupPrune
    \/ CleanupEnd
    \/ MainCleanupExit
    \/ MainUsage

SpecMain == InitMain /\ [][NextMain]_vars

\* ----------------------------------- ensure_link, one file system call a step
\* Two invocations of ensure_link for the same share file run side by side.
\* An invocation is at sub path number i of traverse_path(path), about to make
\* the file system call `at`; absent collects the sub paths it found missing.
Invocations == {1, 2}

Invocation(p) ==
    [path |-> p, i |-> 1, at |-> "exists", ret |-> FALSE, err |-> "none",
     absent |-> {}, started |-> FALSE, mixed |-> FALSE, rm |-> <<>>]

Over(pr) == pr.at \in {"returned", "raised"}

\* the invocation goes on with the call c, with the next sub path, or ends
Goto(pr, c) == [pr EXCEPT !.at = c]
NextSub(pr) == [pr EXCEPT !.i = @ + 1, !.at = "exists"]
Return(pr, v) == [pr EXCEPT !.at = "returned", !.ret = v]
Raise(pr, e) == [pr EXCEPT !.at = "raised", !.err = e]

\* the file system call gave r: an exception ends the invocation, otherwise it
\* goes on as nxt
After(r, pr, nxt) ==
    [tree |-> r.tree, proc |-> IF r.err # "none" THEN Raise(pr, r.err) ELSE nxt]

\* os.listdir(d): the names in the directory d
listdir(t, d) == {q \in DOMAIN t : q # d /\ Parent(q) = d /\ exists(t, q)}

\* the orders in which os.listdir(d) can give them
Listings(t, d) ==
    {l \in [1..Cardinality(listdir(t, d)) -> listdir(t, d)] :
        \A j, k \in DOMAIN l : l[j] = l[k] => j = k}

\* os.rmdir(p): OSError unless p is a directory with nothing in it
rmdir(t, p) ==
    IF isdir(t, p) /\ listdir(t, p) = {}
    THEN Res([t EXCEPT ![p] = NoNode], FALSE, "none")
    ELSE Res(t, FALSE, "OSError")

\* rmtree is done with the first name of the listing of its innermost
\* directory: the loop takes the next name, or the directory is removed
NextName(pr) ==
    LET k == Len(pr.rm)
        rest == Tail(pr.rm[k].names)
    IN  Goto([pr EXCEPT !.rm[k].names = rest],
             IF rest = <<>> THEN "rmdir" ELSE "lstat")

\* node.rmdir(force=True) is shutil.rmtree(node.abspath), which holds no lock
\* and makes one file system call after the other; pr.rm is the stack of its
\* recursion, the directory and the names of its listing not yet removed:
\*     if os.path.islink(path): raise OSError
\*     names = os.listdir(path)
\*     for name in names:
\*         mode = os.lstat(fullname).st_mode          (0 on os.error)
\*         if stat.S_ISDIR(mode): rmtree(fullname)
\*         else: os.remove(fullname)
\*     os.rmdir(path)
\* Every os.error is raised (onerror is not given).  The result is the set of
\* outcomes of the next call: listdir gives the names in any order.
rmtree_call(t, n, pr) ==
    LET k == Len(pr.rm)
        Enter(d) == [dir |-> d, names |-> <<>>]
    IN  CASE pr.at = "rmtree" ->
               {[tree |-> t, proc |-> Goto([pr EXCEPT !.rm = <<Enter(n)>>], "listdir")]}
          [] pr.at = "listdir" ->
               IF ~isdir(t, pr.rm[k].dir)
               THEN {[tree |-> t, proc |-> Raise(pr, "OSError")]}
               ELSE {[tree |-> t,
                      proc |-> Goto([pr EXCEPT !.rm[k].names = l],
                                    IF l = <<>> THEN "rmdir" ELSE "lstat")]
                     : l \in Listings(t, pr.rm[k].dir)}
          [] pr.at = "lstat" ->
               {[tree |-> t,
                 proc |-> IF isdir(t, Head(pr.rm[k].names))
                          THEN Goto([pr EXCEPT !.rm = Append(@, Enter(Head(pr.rm[k].names)))],
                                    "listdir")
                          ELSE Goto(pr, "unlink")]}
          [] pr.at = "unlink" ->
               {After(remove(t, Head(pr.rm[k].names)), pr, NextName(pr))}
          [] pr.at = "rmdir" ->
               {After(rmdir(t, pr.rm[k].dir), pr,
                      IF k = 1 THEN Goto([pr EXCEPT !.rm = <<>>], "link")
                      ELSE NextName([pr EXCEPT !.rm = SubSeq(@, 1, k - 1)]))}

InRmtree(pr) == pr.at \in {"rmtree", "listdir", "lstat", "unlink", "rmdir"}

\* an invocation that takes any file it finds at the leaf for the hardlink
ensure_link_call_by_name(t, src, pr) ==
    LET n == traverse_path(pr.path)[pr.i]
        leaf == pr.i = Len(pr.path)
    IN  IF InRmtree(pr) THEN rmtree_call(t, n, pr) ELSE {
        CASE pr.at = "exists" ->
               IF exists(t, n) THEN [tree |-> t, proc |-> Goto(pr, "isfile")]
               ELSE [tree |-> t,
                     proc |-> [Goto(pr, IF leaf THEN "link" ELSE "mkdir")
                                  EXCEPT !.absent = @ \cup {n}]]
          [] pr.at = "isfile" ->
               [tree |-> t,
                proc |-> IF isfile(t, n)
                         THEN (IF leaf THEN Return(pr, FALSE) ELSE Goto(pr, "remove"))
                         ELSE IF leaf THEN Goto(pr, "isdir") ELSE NextSub(pr)]
          [] pr.at = "isdir" ->
               [tree |-> t,
                proc |-> IF isdir(t, n) THEN Goto(pr, "rmtree")
                         ELSE Raise(pr, "NotImplementedError")]
          [] pr.at = "remove" ->
               After(remove(t, n), pr, Goto(pr, IF leaf THEN "link" ELSE "mkdir"))
          [] pr.at = "link" -> After(link_to(t, n, src), pr, Return(pr, TRUE))
          [] pr.at = "mkdir" -> After(mkdir(t, n), pr, NextSub(pr)) }

\* The next file system call of the invocation pr of ensure_link on the tree t,
\* src being the share file: node.exists, node.isfile, the two os.stat,
\* node.isdir, node.remove(), the calls of node.rmdir(force=True),
\* node.link_to(src), node.mkdir(), each followed by the branching of the code
\* on its result.  The result is the set of outcomes the call can have.
ensure_link_call(t, src, pr) ==
    LET n == traverse_path(pr.path)[pr.i]
        leaf == pr.i = Len(pr.path)
    IN  IF InRmtree(pr) THEN rmtree_call(t, n, pr) ELSE {
        CASE pr.at = "exists" ->
               IF exists(t, n) THEN [tree |-> t, proc |-> Goto(pr, "isfile")]
               ELSE [tree |-> t,
                     proc |-> [Goto(pr, IF leaf THEN "link" ELSE "mkdir")
                                  EXCEPT !.absent = @ \cup {n}]]
          [] pr.at = "isfile" ->
               [tree |-> t,
                proc |-> IF isfile(t, n)
                         THEN Goto(pr, IF leaf THEN "stat" ELSE "remove")
                         ELSE IF leaf THEN Goto(pr, "isdir") ELSE NextSub(pr)]
          [] pr.at = "stat" ->
               [tree |-> t,
                proc |-> IF ~exists(t, n) \/ src.kind = "none" THEN Raise(pr, "OSError")
                         ELSE IF ~same_inode(t, n, src) THEN Goto(pr, "remove")
                         ELSE Return(pr, FALSE)]
          [] pr.at = "isdir" ->
               [tree |-> t,
                proc |-> IF isdir(t, n) THEN Goto(pr, "rmtree")
                         ELSE Raise(pr, "NotImplementedError")]
          [] pr.at = "remove" ->
               After(remove(t, n), pr, Goto(pr, IF leaf THEN "link" ELSE "mkdir"))
          [] pr.at = "link" -> After(link_to(t, n, src), pr, Return(pr, TRUE))
          [] pr.at = "mkdir" -> After(mkdir(t, n), pr, NextSub(pr)) }

\* invocation x makes its next file system call on the store; the step is
\* mixed when the other invocation has begun and is not over
RaceStep(x) ==
    /\ procs # <<>>
    /\ ~Over(procs[x])
    /\ \E r \in ensure_link_call(store, share[procs[x].path], procs[x]) :
        LET mix == \E y \in Invocations \ {x} : procs[y].started /\ ~Over(procs[y])
        IN  /\ store' = r.tree
            /\ procs' = [procs EXCEPT ![x] = [r.proc EXCEPT !.started = TRUE,
                                                            !.mixed = @ \/ mix]]
    /\ UNCHANGED <<share, age, calls, cvars>>

\* two invocations for one regular file of the share, on an existing store
InitRace ==
    /\ share \in Trees(DirNode, UserPaths)
    /\ store \in Trees(DirNode, UserPaths)
    /\ \E p \in UserPaths :
        /\ isfile(share, p)
        /\ procs = [x \in Invocations |-> Invocation(p)]
    /\ age = [i \in Inodes |-> 0]
    /\ calls = <<>>
    /\ pc = "idle"
    /\ days = 0
    /\ todo = {}
    /\ done1 = {}
    /\ done2 = {}
    /\ tbd = <<>>
    /\ raised = "none"
    /\ start = NoStart

NextRace == \E x \in Invocations : RaceStep(x)

SpecRace == InitRace /\ [][NextRace]_vars

\* ------------------------------------------------------- Share.__init__
\* The repository holds the code twice: the package src/kgbsorta/ and the
\* older flat modules src/nodes.py and src/kgbsorta.py.

\* Share(path) for the path of the node p of the share tree, err being what
\* the constructor raised
Construct(variant, p, err) ==
    /\ pc = "idle"
    /\ calls = <<>>
    /\ calls' = <<[op |-> "Share", variant |-> variant, path |-> p, err |-> err,
                   share |-> share]>>
    /\ UNCHANGED <<share, store, age, cvars, procs>>

NewShare(p) == Construct("package", p, Share_init(share, p))
NewShareFlat(p) == Construct("flat", p, Share_init_flat(share, p))

NextShare ==
    \/ \E p \in AllPaths : NewShare(p)
    \/ \E p \in AllPaths : NewShareFlat(p)

SpecShare == Init /\ [][NextShare]_vars

\* ------------------------------------------------------------- older_than
\* node.older_than(d) on the node at p of the share (cleanup asks every node of
\* share.subs, whatever is no directory); getmtime and getctime raise OSError
\* for a path that does not exist
AgeTest(variant, p, d, ctime, ret) ==
    /\ pc = "idle"
    /\ calls = <<>>
    /\ ~isdir(share, p)
    /\ calls' = <<[op |-> "older_than", variant |-> variant, path |-> p,
                   days |-> d,
                   mtime |-> IF exists(share, p) THEN since_mtime(age, share[p].ino)
                             ELSE 0,
                   ctime |-> ctime,
                   ret |-> exists(share, p) /\ ret,
                   err |-> IF exists(share, p) THEN "none" ELSE "OSError"]>>
    /\ UNCHANGED <<share, store, age, cvars, procs>>

OlderThan(p, d) ==
    \E ctime \in 0..MaxAge :
        AgeTest("package", p, d, ctime,
                exists(share, p) /\ older_than(age, share[p].ino, d))

OlderThanFlat(p, d) ==
    \E ctime \in 0..MaxAge :
        AgeTest("flat", p, d, ctime, older_than_flat(ctime, d))

\* files and special nodes of any age from none to MaxAge half days
InitAge ==
    /\ share \in Trees(DirNode, UserPaths) \cup SpecialTrees
    /\ store \in Trees(NoNode, {})
    /\ age \in {ag \in [Inodes -> 0..MaxAge] :
                    \A i \in Inodes \ inodes_of(share) : ag[i] = 0}
    /\ calls = <<>>
    /\ pc = "idle"
    /\ days = 0
    /\ todo = {}
    /\ done1 = {}
    /\ done2 = {}
    /\ tbd = <<>>
    /\ raised = "none"
    /\ start = NoStart
    /\ procs = <<>>

NextAge ==
    \/ \E p \in UserPaths, d \in 0..MaxDays : OlderThan(p, d)
    \/ \E p \in UserPaths, d \in 0..MaxDays : OlderThanFlat(p, d)

SpecAge == InitAge /\ [][NextAge]_vars

\* ---------------------------------------------------- traverse_path, strings
\* the characters of the paths given to traverse_path
Chars == {"a", "b", Sep}
MaxLen == 5
Strings == UNION {[1..n -> Chars] : n \in 1..MaxLen}

\* the places of the separators in a string
SepAt(str) == {i \in 1..Len(str) : str[i] = Sep}

\* path.split(os.path.sep): the pieces between the separators, the empty ones
\* included; a string of k separators has k + 1 pieces
RECURSIVE path_split(_)
path_split(str) ==
    IF SepAt(str) = {} THEN <<str>>
    ELSE LET i == CHOOSE j \in SepAt(str) : \A h \in SepAt(str) : j <= h
         IN  <<SubSeq(str, 1, i - 1)>> \o path_split(SubSeq(str, i + 1, Len(str)))

\* os.path.sep.join(pieces)
RECURSIVE sep_join(_)
sep_join(pieces) ==
    IF pieces = <<>> THEN <<>>
    ELSE IF Len(pieces) = 1 THEN pieces[1]
    ELSE pieces[1] \o <<Sep>> \o sep_join(Tail(pieces))

\* a traverse_path that yields the pieces one by one and not the paths to them:
\*     yield path.split(os.path.sep)[i]
traverse_path_pieces(path) ==
    [i \in 1..Len(path_split(path)) |-> path_split(path)[i]]

\* traverse_path on the string:
\*     for i, elem in enumerate(path.split(os.path.sep)):
\*         yield os.path.sep.join(path.split(os.path.sep)[0:i + 1])
traverse_path_str(path) ==
    [i \in 1..Len(path_split(path)) |->
        sep_join(SubSeq(path_split(path), 1, i))]

\* the sub paths that the loops of check_link and ensure_link take for the leaf:
\*     if len(sub_path) == len(rel_path):  # leaf
leaves(sub_paths, path) ==
    {k \in 1..Len(sub_paths) : Len(sub_paths[k]) = Len(path)}

\* list(traverse_path(path)), and what the loops take for the leaf
Traverse(path) ==
    /\ pc = "idle"
    /\ calls = <<>>
    /\ calls' = <<[op |-> "traverse_path", path |-> path,
                   ret |-> traverse_path_str(path),
                   leaves |-> leaves(traverse_path_str(path), path)]>>
    /\ UNCHANGED <<share, store, age, cvars, procs>>

InitPath ==
    /\ share \in Trees(DirNode, {})
    /\ store \in Trees(DirNode, {})
    /\ age = [i \in Inodes |-> 0]
    /\ calls = <<>>
    /\ pc = "idle"
    /\ days = 0
    /\ todo = {}
    /\ done1 = {}
    /\ done2 = {}
    /\ tbd = <<>>
    /\ raised = "none"
    /\ start = NoStart
    /\ procs = <<>>

NextPath == \E path \in Strings : Traverse(path)

SpecPath == InitPath /\ [][NextPath]_vars

\* ------------------------------------------------- SmbNode (src/kgbsorter.py)
\* The variant for the shares of a Samba server keeps the store of the share
\* /mnt/foobar at /mnt/.foobar.  SmbNode extends Directory of the library
\* fs_hopper, which is no part of the repository: exists, is_dir, is_file,
\* delete and mkdir are taken for os.path.exists, isdir, isfile, os.remove and
\* os.mkdir.  The paths go three names deep, and the store has the places where
\* the walks of lock and unlock can get to.
SmbRel ==
    {<<"a">>, <<"b">>, <<"c">>, <<"a", "b">>, <<"a", "c">>, <<"b", "c">>,
     <<"a", "b", "c">>}
SmbPaths == SmbRel \cup {Root}
SmbShareRel == {<<"a">>, <<"a", "b">>, <<"a", "b", "c">>, <<"c">>}

SmbTrees(ps) ==
    {t \in [SmbPaths -> Nodes] :
        /\ t[Root] = DirNode
        /\ \A p \in SmbRel : t[p].kind # "none" => t[Parent(p)].kind = "dir"
        /\ \A p \in SmbRel \ ps : t[p] = NoNode}

\* the walk of lock along dirs = rel_path.split(os.path.sep)[:-1], from the i-th
\* name on, dir_cursor being the directory reached so far:
\*     subdir = SmbNode(os.path.join(dir_cursor.name, d))
\*     if subdir.exists():
\*         if subdir.is_dir(): dir_cursor = subdir
\*         elif subdir.is_file(): subdir.delete()
\*         else: raise NotImplementedError
\*     else:
\*         subdir.mkdir(); dir_cursor = subdir
\* After subdir.delete() no directory is made and dir_cursor stays where it is.
RECURSIVE smb_lock_dirs(_, _, _, _)
smb_lock_dirs(t, dir_cursor, dirs, i) ==
    IF i > Len(dirs) THEN [tree |-> t, dir_cursor |-> dir_cursor, err |-> "none"]
    ELSE LET subdir == Append(dir_cursor, dirs[i]) IN
         IF exists(t, subdir)
         THEN IF isdir(t, subdir) THEN smb_lock_dirs(t, subdir, dirs, i + 1)
              ELSE IF isfile(t, subdir)
              THEN LET rm == remove(t, subdir) IN
                   IF rm.err # "none"
                   THEN [tree |-> t, dir_cursor |-> dir_cursor, err |-> rm.err]
                   ELSE smb_lock_dirs(rm.tree, dir_cursor, dirs, i + 1)
              ELSE [tree |-> t, dir_cursor |-> dir_cursor,
                    err |-> "NotImplementedError"]
         ELSE LET mk == mkdir(t, subdir) IN
              IF mk.err # "none"
              THEN [tree |-> t, dir_cursor |-> dir_cursor, err |-> mk.err]
              ELSE smb_lock_dirs(mk.tree, subdir, dirs, i + 1)

\* the walk of unlock along dirs; every name is looked up in the store
\* directory itself:
\*     subdir = SmbNode(os.path.join(store_basedir.name, d))
\*     if subdir.exists():
\*         if subdir.is_dir(): dir_cursor = subdir
\*         elif subdir.is_file(): return unlocked_files
\*         else: raise NotImplementedError
\*     else:
\*         return unlocked_files
RECURSIVE smb_unlock_dirs(_, _, _, _)
smb_unlock_dirs(t, dir_cursor, dirs, i) ==
    IF i > Len(dirs) THEN [dir_cursor |-> dir_cursor, out |-> "found"]
    ELSE LET subdir == Append(Root, dirs[i]) IN
         IF exists(t, subdir)
         THEN IF isdir(t, subdir) THEN smb_unlock_dirs(t, subdir, dirs, i + 1)
              ELSE IF isfile(t, subdir)
              THEN [dir_cursor |-> dir_cursor, out |-> "return"]
              ELSE [dir_cursor |-> dir_cursor, out |-> "NotImplementedError"]
         ELSE [dir_cursor |-> dir_cursor, out |-> "return"]

\* SmbNode.childs: the entries of the directory at p, as fs_hopper lists them
smb_childs(sh, p) == {q \in SmbRel : Parent(q) = p /\ sh[q].kind # "none"}

\* the result of a method of SmbNode: the list it returns is the sequence of
\* the paths of its nodes, and there is none when an exception was raised
SmbRes(r, nodes) == Res(r.tree, IF r.err = "none" THEN nodes ELSE <<>>, r.err)

\* SmbNode.lock of the node at p of the share: every result the call can have,
\* the value returned being the paths of the list of the locked files.
\*     if self.is_dir():
\*         for child in self.childs: locked_files += child.lock()
\*     elif self.is_file(): ... os.link(self.name, dst.name) ...
\*     else: raise NotImplementedError
\* The childs come in the order of the listing of the directory, any order, and
\* the exception of a child ends the loop and the call.
RECURSIVE smb_lock(_, _, _)
RECURSIVE smb_lock_childs(_, _, _, _)
smb_lock_childs(sh, st, nodes, locked_files) ==
    IF nodes = {} THEN {Res(st, locked_files, "none")}
    ELSE UNION {
        UNION {
            IF r.err # "none" THEN {r}
            ELSE smb_lock_childs(sh, r.tree, nodes \ {child}, locked_files \o r.ret)
            : r \in smb_lock(sh, st, child)}
        : child \in nodes}

smb_lock(sh, st, p) ==
    IF ~exists(sh, p) THEN {Res(st, <<>>, "IOError")}
    ELSE IF isdir(sh, p) THEN smb_lock_childs(sh, st, smb_childs(sh, p), <<>>)
    ELSE IF ~isfile(sh, p) THEN {Res(st, <<>>, "NotImplementedError")}
    ELSE LET walk == smb_lock_dirs(st, Root, Parent(p), 1)
             dst == Append(walk.dir_cursor, p[Len(p)])
         IN  IF walk.err # "none" THEN {Res(walk.tree, <<>>, walk.err)}
             ELSE IF ~exists(walk.tree, dst)
             THEN {SmbRes(link_to(walk.tree, dst, sh[p]), <<p>>)}
             ELSE {Res(walk.tree, <<>>, "none")}

\* SmbNode.unlock of the node at p of the share: every result the call can
\* have, the value returned being the paths in the list of the unlocked files.
\*     if self.is_dir():
\*         for child in self.childs: unlocked_files += child.unlock()
\*     elif self.is_file(): ... os.remove(dst.name) ...
\* A node that is neither has nothing done to it.
RECURSIVE smb_unlock(_, _, _)
RECURSIVE smb_unlock_childs(_, _, _, _)
smb_unlock_childs(sh, st, nodes, unlocked_files) ==
    IF nodes = {} THEN {Res(st, unlocked_files, "none")}
    ELSE UNION {
        UNION {
            IF r.err # "none" THEN {r}
            ELSE smb_unlock_childs(sh, r.tree, nodes \ {child},
                                   unlocked_files \o r.ret)
            : r \in smb_unlock(sh, st, child)}
        : child \in nodes}

smb_unlock(sh, st, p) ==
    IF ~exists(sh, p) THEN {Res(st, <<>>, "IOError")}
    ELSE IF isdir(sh, p) THEN smb_unlock_childs(sh, st, smb_childs(sh, p), <<>>)
    ELSE IF ~isfile(sh, p) THEN {Res(st, <<>>, "none")}
    ELSE LET walk == smb_unlock_dirs(st, Root, Parent(p), 1)
             dst == Append(walk.dir_cursor, p[Len(p)])
         IN  IF walk.out = "NotImplementedError"
             THEN {Res(st, <<>>, "NotImplementedError")}
             ELSE IF walk.out = "return" THEN {Res(st, <<>>, "none")}
             ELSE IF exists(st, dst) /\ isfile(st, dst) /\ st_ino(st, dst) = sh[p].ino
             THEN {SmbRes(remove(st, dst), <<p>>)}
             ELSE {Res(st, <<>>, "none")}

\* KgbSorter.lock(*paths) and KgbSorter.unlock(*paths), from the i-th path on:
\*     for path in paths: share = SmbNode(path); locked_nodes += share.lock()
RECURSIVE on_paths(_, _, _, _, _, _)
on_paths(name, sh, st, paths, i, nodes) ==
    IF i > Len(paths) THEN {Res(st, nodes, "none")}
    ELSE UNION {
        IF r.err # "none" THEN {r}
        ELSE on_paths(name, sh, r.tree, paths, i + 1, nodes \o r.ret)
        : r \in IF name = "lock" THEN smb_lock(sh, st, paths[i])
                ELSE smb_unlock(sh, st, paths[i])}

KgbSorter_lock(sh, st, paths) == on_paths("lock", sh, st, paths, 1, <<>>)
KgbSorter_unlock(sh, st, paths) == on_paths("unlock", sh, st, paths, 1, <<>>)

\* one call of a method of the SmbNode of the path p, or of a method of
\* KgbSorter with the paths p, results being what it can do
OnSmbNode(name, p, results) ==
    /\ pc = "idle"
    /\ Len(calls) < MaxCalls
    /\ \E r \in results :
        /\ store' = r.tree
        /\ calls' = Append(calls, Call(name, p, r))
    /\ UNCHANGED <<share, age, cvars, procs>>

SmbLock(p) ==
    /\ calls = <<>>
    /\ OnSmbNode("smb_lock", p, smb_lock(share, store, p))

\* unlock, as the first call or of the node that was locked just before
SmbUnlock(p) ==
    /\ calls # <<>> => (calls[Len(calls)].op = "smb_lock" /\ calls[Len(calls)].path = p)
    /\ OnSmbNode("smb_unlock", p, smb_unlock(share, store, p))

\* the paths KgbSorter.lock and KgbSorter.unlock are given
SmbTargets == SmbShareRel \cup {Root}
SmbBatches == UNION {[1..n -> SmbTargets] : n \in 1..MaxTargets}

SorterLock(paths) ==
    /\ calls = <<>>
    /\ OnSmbNode("sorter_lock", paths, KgbSorter_lock(share, store, paths))

SorterUnlock(paths) ==
    /\ calls = <<>>
    /\ OnSmbNode("sorter_unlock", paths, KgbSorter_unlock(share, store, paths))

InitSmb ==
    /\ share \in SmbTrees(SmbShareRel)
    /\ store \in SmbTrees(SmbRel)
    /\ age = [i \in Inodes |-> 0]
    /\ calls = <<>>
    /\ pc = "idle"
    /\ days = 0
    /\ todo = {}
    /\ done1 = {}
    /\ done2 = {}
    /\ tbd = <<>>
    /\ raised = "none"
    /\ start = NoStart
    /\ procs = <<>>

NextSmb ==
    \/ \E p \in SmbTargets : SmbLock(p)
    \/ \E p \in SmbTargets : SmbUnlock(p)
    \/ \E paths \in SmbBatches : SorterLock(paths)
    \/ \E paths \in SmbBatches : SorterUnlock(paths)

SpecSmb == InitSmb /\ [][NextSmb]_vars

\* ------------------------------------------ lock and unlock, one after another
\* a call of lock or unlock after the calls made so far, results being what it
\* can do: the trees it leaves below the share and below the store
InSequence(name, files, results) ==
    /\ pc = "idle"
    /\ Len(calls) < MaxCalls
    /\ \E r \in results :
        /\ share' = r.share
        /\ store' = r.tree
        /\ calls' = Append(calls, Call(name, files, r))
    /\ UNCHANGED <<age, cvars, procs>>

LockNext(t) == InSequence("lock", <<t>>, lock(share, store, <<t>>))
UnlockNext(t) == InSequence("unlock", <<t>>, unlock(share, store, <<t>>))

\* the targets of the calls: the paths of the share, the share itself and the
\* file of the directory next to it
SeqTargets == Targets \ {Outside}

NextSeq ==
    \/ \E t \in SeqTargets : LockNext(t)
    \/ \E t \in SeqTargets : UnlockNext(t)

SpecSeq == Init /\ [][NextSeq]_vars

\* ------------------------------------- cleanup, phase 2, next to a lock
\* The second loop of cleanup at the grain of its file system calls, while an
\* invocation of ensure_link (procs[1]) makes its own.  procs[2] is the
\* iteration of the loop for one node of the listing.
Locker == 1
Pruner == 2

Iteration(p) == [Invocation(p) EXCEPT !.at = "check_exists"]

\* cleanup removed the share file at p; locked tells whether the store held
\* its hardlink at that moment
Removal(p, locked) == [op |-> "cleanup_remove", path |-> p, locked |-> locked]

\* The next file system call of the iteration pr of the second loop on the
\* share tree sh and the store st, each followed by the branching of the code
\* on its result:
\*     if node.share.store.check_link(node.rel_path, node): continue
\*         node.exists, node.isfile / node.isdir and the two os.stat of
\*         check_link, sub path by sub path
\*     if node.older_than(days): node.remove()         getmtime, os.remove
\*     if node.older_than(days - 1): tbd_file.write(node.relpath + ...)
\* The iteration returns TRUE when the file is locked.
prune_call(sh, st, ag, d, pr) ==
    LET p == pr.path
        n == traverse_path(p)[pr.i]
        leaf == pr.i = Len(p)
        unlocked == Goto(pr, "getmtime")
    IN  CASE pr.at = "check_exists" ->
               [tree |-> sh,
                proc |-> IF exists(st, n)
                         THEN Goto(pr, IF leaf THEN "check_isfile" ELSE "check_isdir")
                         ELSE unlocked]
          [] pr.at = "check_isfile" ->
               [tree |-> sh,
                proc |-> IF isfile(st, n) THEN Goto(pr, "check_stat") ELSE unlocked]
          [] pr.at = "check_isdir" ->
               [tree |-> sh,
                proc |-> IF isdir(st, n) THEN Goto(NextSub(pr), "check_exists")
                         ELSE unlocked]
          [] pr.at = "check_stat" ->
               [tree |-> sh,
                proc |-> IF ~exists(st, n) \/ ~exists(sh, p) THEN Raise(pr, "OSError")
                         ELSE IF same_inode(st, n, sh[p]) THEN Return(pr, TRUE)
                         ELSE unlocked]
          [] pr.at = "getmtime" ->
               [tree |-> sh,
                proc |-> IF ~exists(sh, p) THEN Raise(pr, "OSError")
                         ELSE IF older_than(ag, sh[p].ino, d) THEN Goto(pr, "remove")
                         ELSE Goto(pr, "getmtime_again")]
          [] pr.at = "remove" ->
               After(remove(sh, p), pr, Goto(pr, "getmtime_again"))
          [] pr.at = "getmtime_again" ->
               [tree |-> sh,
                proc |-> IF ~exists(sh, p) THEN Raise(pr, "OSError")
                         ELSE IF older_than(ag, sh[p].ino, d - 1)
                         THEN Raise(pr, "AttributeError")
                         ELSE Return(pr, FALSE)]

\* the loop takes the next node of its listing, or is over
PruneNext ==
    /\ pc = "phase2"
    /\ procs[Pruner].at = "returned"
    /\ IF todo = {}
       THEN /\ pc' = "done"
            /\ UNCHANGED <<todo, done2, procs>>
       ELSE /\ \E p \in walk_next(todo) :
                /\ todo' = todo \ {p}
                /\ done2' = done2 \cup {p}
                /\ procs' = [procs EXCEPT ![Pruner] =
                                [Iteration(p) EXCEPT !.started = TRUE]]
            /\ pc' = pc
    /\ UNCHANGED <<share, store, age, calls, days, done1, tbd, raised, start>>

\* the loop makes its next file system call; an exception ends the pass
PruneStep ==
    /\ pc = "phase2"
    /\ ~Over(procs[Pruner])
    /\ LET pr == procs[Pruner]
           r == prune_call(share, store, age, days, pr)
       IN  /\ share' = r.tree
           /\ procs' = [procs EXCEPT ![Pruner] = r.proc]
           /\ calls' = IF r.tree # share
                       THEN Append(calls,
                                   Removal(pr.path,
                                           check_link(store, pr.path,
                                                      share[pr.path]).ret))
                       ELSE calls
           /\ IF r.proc.at = "raised"
              THEN pc' = "failed_phase2" /\ raised' = r.proc.err
              ELSE UNCHANGED <<pc, raised>>
    /\ UNCHANGED <<store, age, days, todo, done1, done2, tbd, start>>

\* lock makes the next file system call of its ensure_link
LockStep == RaceStep(Locker)

\* The pass has opened the manifest and finished its first loop, so every file
\* of the store is hardlinked in the share; the share files are MaxAge half
\* days old, the manifest is new.  A lock of one share file is about to begin.
InitPrune ==
    /\ \E t \in Trees(DirNode, UserPaths) :
        share = [t EXCEPT ![Manifest] = FileNode(MaxIno + 1)]
    /\ store \in Trees(DirNode, UserPaths)
    /\ \A q \in RelPaths : isfile(store, q) => check_link(store, q, share[q]).ret
    /\ \E p \in UserPaths :
        /\ isfile(share, p)
        /\ procs = <<Invocation(p), Return(Iteration(Root), FALSE)>>
    /\ age = [i \in Inodes |-> IF i = MaxIno + 1 THEN 0 ELSE MaxAge]
    /\ calls = <<>>
    /\ pc = "phase2"
    /\ days \in 0..MaxDays
    /\ todo = subs(share)
    /\ done1 = subs(store)
    /\ done2 = {}
    /\ tbd = <<Header>>
    /\ raised = "none"
    /\ start = [share |-> share, store |-> store, age |-> age]

NextPrune ==
    \/ PruneNext
    \/ PruneStep
    \/ LockStep

SpecPrune == InitPrune /\ [][NextPrune]_vars

\* ================================================================ claims
\* The lock relation as the data model defines it: Store(S)/p exists, is a
\* regular file and has the inode of S/p.
Hardlinked(st, sh, p) ==
    /\ exists(st, p) /\ st[p].kind = "file"
    /\ exists(sh, p) /\ sh[p].kind = "file"
    /\ st[p].ino = sh[p].ino

CallIdx == 1..Len(calls)
Returned(c) == c.err = "none"

\* C1: isLocked(p, S) returns true if and only if Store(S)/p exists, is a
\* regular file and has the inode of S/p; a copy at p with another inode is not
\* a lock.
C1_IsLockedIffSameInode ==
    \A k \in CallIdx :
        calls[k].op = "check_link" =>
            ((Returned(calls[k]) /\ calls[k].ret)
                <=> Hardlinked(calls[k].before, calls[k].share, calls[k].path))

\* C1 witness: isLocked answered false for a copy that sits below a store
\* directory at the right path with another inode.
C1_Witness ==
    \E k \in CallIdx :
        /\ calls[k].op = "check_link"
        /\ Len(calls[k].path) = 2
        /\ isfile(calls[k].before, calls[k].path)
        /\ calls[k].before[calls[k].path].ino # calls[k].share[calls[k].path].ino
        /\ Returned(calls[k]) /\ ~calls[k].ret

\* C2: on an existing store, whatever is absent, a file or a directory along p,
\* ensureLocked(p, S) raises nothing and isLocked(p, S) is true right afterwards.
C2_EnsureLockedHeals ==
    \A k \in CallIdx :
        (calls[k].op = "ensure_link" /\ store_ok(calls[k].before)) =>
            /\ Returned(calls[k])
            /\ check_link(calls[k].after, calls[k].path,
                          calls[k].share[calls[k].path]).ret

\* C2 witness: ensureLocked ran on a/b while the store held a regular file at a.
C2_Witness ==
    \E k \in CallIdx :
        /\ calls[k].op = "ensure_link"
        /\ calls[k].path = <<"a", "b">>
        /\ isfile(calls[k].before, <<"a">>)
        /\ Returned(calls[k])
        /\ isfile(calls[k].after, <<"a", "b">>)

\* C3: of two ensureLocked(p, S) calls in succession on an existing store, each
\* leaves p locked, and the second returns created = false and leaves the store
\* as it found it.
C3_EnsureLockedIdempotent ==
    \A k \in CallIdx :
        (/\ k + 1 \in CallIdx
         /\ calls[k].op = "ensure_link" /\ calls[k + 1].op = "ensure_link"
         /\ calls[k].path = calls[k + 1].path
         /\ store_ok(calls[k].before)) =>
            /\ Returned(calls[k]) /\ Returned(calls[k + 1])
            /\ check_link(calls[k].after, calls[k].path,
                          calls[k].share[calls[k].path]).ret
            /\ check_link(calls[k + 1].after, calls[k].path,
                          calls[k].share[calls[k].path]).ret
            /\ calls[k + 1].ret = FALSE
            /\ calls[k + 1].after = calls[k + 1].before

\* C3 witness: the first of two ensureLocked calls on a/b created the link.
C3_Witness ==
    \E k \in CallIdx :
        /\ k + 1 \in CallIdx
        /\ calls[k].op = "ensure_link" /\ calls[k + 1].op = "ensure_link"
        /\ calls[k].path = <<"a", "b">> /\ calls[k + 1].path = <<"a", "b">>
        /\ Returned(calls[k]) /\ calls[k].ret
        /\ Returned(calls[k + 1])

\* C4: ensureLocked(p, S) followed by ensureUnlocked(p, S) leaves p unlocked,
\* and the share still holds its regular file at p with the inode it had.
C4_LockThenUnlock ==
    \A k \in CallIdx :
        (/\ k + 1 \in CallIdx
         /\ calls[k].op = "ensure_link" /\ calls[k + 1].op = "ensure_unlink"
         /\ calls[k].path = calls[k + 1].path) =>
            /\ ~check_link(calls[k + 1].after, calls[k].path,
                           share[calls[k].path]).ret
            /\ ~Hardlinked(calls[k + 1].after, share, calls[k].path)
            /\ isfile(share, calls[k].path)
            /\ share[calls[k].path] = calls[k].share[calls[k].path]

\* C4 witness: a lock of a/b that created the link, then an unlock that removed
\* it.
C4_Witness ==
    \E k \in CallIdx :
        /\ k + 1 \in CallIdx
        /\ calls[k].op = "ensure_link" /\ calls[k + 1].op = "ensure_unlink"
        /\ calls[k].path = <<"a", "b">> /\ calls[k + 1].path = <<"a", "b">>
        /\ Returned(calls[k]) /\ calls[k].ret
        /\ Returned(calls[k + 1]) /\ calls[k + 1].ret

\* ------------------------------------------------------------ cleanup claims
\* the pass is over: it closed the manifest, or an exception left the loops
PassOver == pc \in {"done", "failed_phase1", "failed_phase2"}

LockedAtStart(p) == Hardlinked(start.store, start.share, p)

\* the time since the mtime of the share file at p, when the pass began
AgeAtStart(p) == start.age[start.share[p].ino]

\* C5: every share file that is locked when cleanup starts is still in the
\* share, unchanged and hardlinked to its store entry, at every moment of the
\* pass and after it, whatever its age.
C5_LockedFilesSurvive ==
    pc # "idle" =>
        \A p \in RelPaths :
            LockedAtStart(p) =>
                /\ isfile(share, p)
                /\ share[p] = start.share[p]
                /\ Hardlinked(store, share, p)

\* C5 witness: phase 2 visited a locked file older than the threshold, and the
\* file is there after the pass.
C5_Witness ==
    /\ PassOver
    /\ \E p \in done2 :
        /\ LockedAtStart(p)
        /\ older_than(start.age, start.share[p].ino, days)
        /\ isfile(share, p)

\* C6: after a cleanup pass every user file of the share that had no store
\* hardlink and an mtime older than the threshold when the pass began has been
\* removed, however many there are.
C6_AgedUnlockedRemoved ==
    PassOver =>
        \A p \in UserPaths :
            (/\ isfile(start.share, p)
             /\ ~LockedAtStart(p)
             /\ AgeAtStart(p) > days * HalfDaysPerDay) =>
                ~(isfile(share, p) /\ share[p] = start.share[p])

\* C7 as claimed: every share file younger than the threshold when cleanup
\* starts is still at its path afterwards, whatever the store contains.
C7_YoungRetainedWhateverStore ==
    pc # "idle" =>
        \A p \in RelPaths :
            (isfile(start.share, p) /\ AgeAtStart(p) < days * HalfDaysPerDay) =>
                isfile(share, p) /\ share[p] = start.share[p]

\* a store file or special node sits at a proper prefix of p or below p, or the
\* store holds at p itself a special node or a regular file that is no
\* hardlink of the share file
StoreCollides(p) ==
    \E q \in subs(start.store) :
        /\ q # p \/ start.store[q] # start.share[p]
        /\ IsPrefix(q, p) \/ IsPrefix(p, q)

\* C7 amended: every share file younger than the threshold when cleanup starts
\* is still at its path afterwards, the file it was, unless a store file or
\* special node sits at a proper prefix of its path or below its path, or the
\* store holds at the path itself a special node or a regular file of another
\* inode.
C7_YoungRetainedUnlessCollision ==
    pc # "idle" =>
        \A p \in RelPaths :
            (/\ isfile(start.share, p)
             /\ AgeAtStart(p) < days * HalfDaysPerDay
             /\ ~StoreCollides(p)) =>
                isfile(share, p) /\ share[p] = start.share[p]

\* C7 witness: phase 2 visited a young unlocked user file while the store held
\* files, and the pass ended with the file in place.
C7_Witness ==
    /\ pc = "done"
    /\ subs(start.store) # {}
    /\ \E p \in done2 \cap UserPaths :
        /\ isfile(start.share, p)
        /\ AgeAtStart(p) < days * HalfDaysPerDay
        /\ ~LockedAtStart(p)
        /\ isfile(share, p) /\ share[p] = start.share[p]

\* the call of cleanup is over: it returned, or an exception ended it, before
\* the loops (the store directory is missing, the manifest cannot be opened) or
\* inside one
CleanupOver == pc \in {"done", "failed_start", "failed_phase1", "failed_phase2"}

\* C8: after a cleanup pass every regular file under the store has a regular
\* file of the same inode at its relative path under the share, whether the
\* share file was missing, had another inode or was a directory before.
C8_StoreIsManifest ==
    CleanupOver =>
        \A p \in subs(store) :
            isfile(store, p) => isfile(share, p) /\ share[p].ino = store[p].ino

\* C9: phase 2 looks at share files only once phase 1 has visited every store
\* file, so every store file phase 2 came across was by then restored in the
\* share, was taken as locked and is still there.
C9_PhaseOrder ==
    pc \in {"phase2", "done", "failed_phase2"} =>
        /\ done1 = subs(start.store)
        /\ \A p \in done2 :
            isfile(start.store, p) => Hardlinked(store, share, p)

\* C9 witness: a store file older than the threshold was missing in the share
\* when the pass began; phase 2 visited it and it is in the share.
C9_Witness ==
    /\ pc \in {"done", "failed_phase2"}
    /\ \E p \in done2 :
        /\ isfile(start.store, p)
        /\ ~exists(start.share, p)
        /\ older_than(start.age, start.store[p].ino, days)
        /\ Hardlinked(store, share, p)

\* the directory at p of tree t has no entry
EmptyDir(t, p) == isdir(t, p) /\ \A q \in RelPaths : Parent(q) = p => ~exists(t, q)

\* C10: after a cleanup pass no directory that the pass left with zero entries
\* remains under the share or under the store.
C10_EmptyDirsPruned ==
    PassOver =>
        \A p \in RelPaths :
            /\ ~(isdir(start.share, p) /\ ~EmptyDir(start.share, p) /\ EmptyDir(share, p))
            /\ ~(isdir(start.store, p) /\ ~EmptyDir(start.store, p) /\ EmptyDir(store, p))

\* ------------------------------------------------- lock protocol, case by case
\* the proper prefixes of p: its intermediate segments
Branches(p) == {SubSeq(p, 1, i) : i \in 1..(Len(p) - 1)}

\* C11: when an intermediate segment of p is a regular file in the store,
\* ensureLocked(p, S) raises nothing, leaves a directory at that segment and
\* ends with isLocked(p, S) true.
C11_BranchFileHealed ==
    \A k \in CallIdx :
        calls[k].op = "ensure_link" =>
            \A q \in Branches(calls[k].path) :
                isfile(calls[k].before, q) =>
                    /\ Returned(calls[k])
                    /\ isdir(calls[k].after, q)
                    /\ Hardlinked(calls[k].after, calls[k].share, calls[k].path)
                    /\ check_link(calls[k].after, calls[k].path,
                                  calls[k].share[calls[k].path]).ret

\* C11 witness: the store held a regular file at a when a/b was locked; the call
\* returned created = true and the store has the directory a.
C11_Witness ==
    \E k \in CallIdx :
        /\ calls[k].op = "ensure_link"
        /\ calls[k].path = <<"a", "b">>
        /\ calls[k].before[<<"a">>].kind = "file"
        /\ calls[k].ret
        /\ calls[k].after[<<"a">>] = DirNode

\* C12: when the store directory does not exist, ensureLocked(p, S) of a regular
\* share file creates the store directory and the directories along p, raises
\* nothing and ends with p locked.
C12_StoreCreatedOnDemand ==
    \A k \in CallIdx :
        (calls[k].op = "ensure_link" /\ ~exists(calls[k].before, Root)) =>
            /\ Returned(calls[k])
            /\ isdir(calls[k].after, Root)
            /\ Hardlinked(calls[k].after, calls[k].share, calls[k].path)

\* C13: with the store directory absent, isLocked(p, S) is false and
\* ensureUnlocked(p, S) returns removed = false, both without raising.
C13_AbsentStoreMeansUnlocked ==
    \A k \in CallIdx :
        (/\ calls[k].op \in {"check_link", "ensure_unlink"}
         /\ ~exists(calls[k].before, Root)) =>
            /\ Returned(calls[k])
            /\ calls[k].ret = FALSE

\* C14: when a non-final segment of p is missing in the store or is no
\* directory there, isLocked(p, S) returns false, raises nothing, looks at no
\* segment below the broken one and leaves store and share as they were.
C14_IsLockedShortCircuits ==
    \A k \in CallIdx :
        (calls[k].op = "check_link" /\ store_ok(calls[k].before)) =>
            \A q \in Branches(calls[k].path) :
                ~isdir(calls[k].before, q) =>
                    /\ Returned(calls[k])
                    /\ calls[k].ret = FALSE
                    /\ calls[k].after = calls[k].before
                    /\ share = calls[k].share
                    /\ \A n \in check_link_nodes(calls[k].before, calls[k].path,
                                                 calls[k].share[calls[k].path]) :
                           Len(n) <= Len(q)

\* C14 witness: isLocked was asked about a/b while the store held a regular
\* file at a, and answered false.
C14_Witness ==
    \E k \in CallIdx :
        /\ calls[k].op = "check_link"
        /\ calls[k].path = <<"a", "b">>
        /\ calls[k].before[<<"a">>].kind = "file"
        /\ Returned(calls[k]) /\ ~calls[k].ret
        /\ check_link_nodes(calls[k].before, calls[k].path,
                            calls[k].share[calls[k].path]) = {<<"a">>}

\* C15: on an existing store ensureLocked(p, S) treats the leaf as follows.
\* Absent: hardlink it, return true.  A regular file of another inode: replace
\* it by the hardlink, return true.  A directory: remove it with all below it,
\* hardlink, return true.  A regular file of the inode of S/p: change nothing,
\* return false.  So it returns true exactly when the call established a
\* hardlink that was not there before.
C15_LeafCases ==
    \A k \in CallIdx :
        (calls[k].op = "ensure_link" /\ store_ok(calls[k].before)) =>
            LET p == calls[k].path
                b == calls[k].before
                a == calls[k].after
                sh == calls[k].share
            IN  /\ Returned(calls[k])
                /\ ~exists(b, p) =>
                      calls[k].ret /\ Hardlinked(a, sh, p)
                /\ (isfile(b, p) /\ b[p].ino # sh[p].ino) =>
                      calls[k].ret /\ Hardlinked(a, sh, p)
                /\ isdir(b, p) =>
                      /\ calls[k].ret /\ Hardlinked(a, sh, p)
                      /\ \A q \in RelPaths : (IsPrefix(p, q) /\ q # p) => a[q] = NoNode
                /\ (isfile(b, p) /\ b[p].ino = sh[p].ino) =>
                      ~calls[k].ret /\ a = b
                /\ calls[k].ret <=> (~Hardlinked(b, sh, p) /\ Hardlinked(a, sh, p))

\* C15 witness: the store held the directory a with a file in it when the share
\* file a was locked; the call returned true and the directory is gone.
C15_Witness ==
    \E k \in CallIdx :
        /\ calls[k].op = "ensure_link"
        /\ calls[k].path = <<"a">>
        /\ isfile(calls[k].before, <<"a", "b">>)
        /\ calls[k].ret
        /\ Hardlinked(calls[k].after, calls[k].share, <<"a">>)

\* C16: on an existing store, when p is not locked (leaf absent, an intermediate
\* directory absent, or a store file at p with another inode),
\* ensureUnlocked(p, S) returns removed = false and leaves store and share as
\* they were; it returns true exactly when it deleted the store file at p.
C16_UnlockNoOpWhenUnlocked ==
    \A k \in CallIdx :
        (calls[k].op = "ensure_unlink" /\ store_ok(calls[k].before)) =>
            /\ Returned(calls[k])
            /\ ~Hardlinked(calls[k].before, calls[k].share, calls[k].path) =>
                  /\ calls[k].ret = FALSE
                  /\ calls[k].after = calls[k].before
                  /\ share = calls[k].share
            /\ calls[k].ret <=>
                  (/\ isfile(calls[k].before, calls[k].path)
                   /\ ~exists(calls[k].after, calls[k].path))

\* C16 witness: ensureUnlocked ran on a/b while the store held a copy of it with
\* another inode, and returned false.
C16_Witness ==
    \E k \in CallIdx :
        /\ calls[k].op = "ensure_unlink"
        /\ calls[k].path = <<"a", "b">>
        /\ isfile(calls[k].before, <<"a", "b">>)
        /\ calls[k].before[<<"a", "b">>].ino # calls[k].share[<<"a", "b">>].ino
        /\ Returned(calls[k]) /\ ~calls[k].ret
        /\ calls[k].after = calls[k].before

\* C17: ensureUnlocked(p, S) of a locked p removes the store file at p and
\* nothing else: every intermediate store directory along p is still there,
\* empty or not, and every other store entry is as it was.
C17_UnlockRemovesLeafOnly ==
    \A k \in CallIdx :
        (/\ calls[k].op = "ensure_unlink"
         /\ Hardlinked(calls[k].before, calls[k].share, calls[k].path)) =>
            /\ Returned(calls[k])
            /\ ~exists(calls[k].after, calls[k].path)
            /\ \A q \in Branches(calls[k].path) : isdir(calls[k].after, q)
            /\ \A q \in AllPaths \ {calls[k].path} :
                   calls[k].after[q] = calls[k].before[q]

\* C17 witness: a/b was the only entry of the store directory a when it was
\* unlocked; afterwards the directory a is there, empty.
C17_Witness ==
    \E k \in CallIdx :
        /\ calls[k].op = "ensure_unlink"
        /\ calls[k].path = <<"a", "b">>
        /\ Hardlinked(calls[k].before, calls[k].share, <<"a", "b">>)
        /\ calls[k].ret
        /\ EmptyDir(calls[k].after, <<"a">>)

\* C18: when an intermediate segment of p exists in the store and is neither a
\* regular file nor a directory, ensureLocked(p, S) fails at that segment with
\* the error of an unexpected node type (NotImplementedError in the code),
\* handles no deeper segment and creates no link.
C18_SpecialBranchFailsFast ==
    \A k \in CallIdx :
        calls[k].op = "ensure_link" =>
            \A q \in Branches(calls[k].path) :
                (exists(calls[k].before, q) /\ calls[k].before[q] = SpecialNode) =>
                    /\ calls[k].err = "NotImplementedError"
                    /\ \A n \in ensure_link_nodes(calls[k].before, calls[k].path,
                                                  calls[k].share[calls[k].path]) :
                           Len(n) <= Len(q)
                    /\ calls[k].after = calls[k].before

\* ------------------------------------------------- the manifest of the pass
\* C19: after a cleanup pass the manifest holds the header line and, for each
\* share file that was unlocked and older than days - 1 when the pass began, a
\* line with its relative path; writing the lines ends no pass.
C19_AdvisoryRecorded ==
    PassOver =>
        /\ tbd[1] = Header
        /\ raised # "AttributeError"
        /\ \A p \in UserPaths :
            (/\ isfile(start.share, p)
             /\ ~LockedAtStart(p)
             /\ ~StoreCollides(p)
             /\ ~exists(start.store, p)
             /\ older_than(start.age, start.share[p].ino, days - 1)) =>
                \E i \in 2..Len(tbd) : tbd[i] = p

\* ------------------------------------------------------- batches of targets
\* C20: in a lock or unlock call over several targets on an existing store, a
\* target that is not found or lies within no share fails alone: every other
\* target that is a regular file of the share has its new lock state after the
\* call, whether it comes before the failing target or after it.
C20_BatchIsolation ==
    \A k \in CallIdx :
        (calls[k].op \in {"lock", "unlock"} /\ store_ok(calls[k].before)) =>
            \A i, j \in 1..Len(calls[k].path) : \A p \in UserPaths :
                (/\ get_path(calls[k].share, calls[k].path[i]).err # "none"
                 /\ calls[k].path[j] = abspath(p)
                 /\ isfile(calls[k].share, p)) =>
                    (Hardlinked(calls[k].after, calls[k].share, p)
                        <=> calls[k].op = "lock")

\* C21: lock or unlock of an existing path that lies below no configured share
\* raises an error, and nothing of the store or the share is created, removed
\* or modified for it.
C21_NotWithinShare ==
    \A k \in CallIdx :
        (/\ calls[k].op \in {"lock", "unlock"}
         /\ path_exists(calls[k].share, calls[k].path[1])
         /\ ~Below(calls[k].path[1])) =>
            /\ ~Returned(calls[k])
            /\ calls[k].after = calls[k].before
            /\ share = calls[k].share

\* ---------------------------------------------------------- the command line
\* C22: a lock, unlock or cleanup command exits with status 0 when it raised
\* nothing, and with another status when an error was raised during it.
C22_ExitStatus ==
    \A k \in CallIdx :
        (calls[k].op = "exit" /\ calls[k].cmd \in {"lock", "unlock", "cleanup"}) =>
            (calls[k].status = 0 <=> calls[k].err = "none")

\* C23: a cleanup command given -d N runs its pass with N as the threshold, and
\* a cleanup command without the option runs it with 7 days.
C23_ThresholdFromOption ==
    (Len(calls) > 0 /\ calls[1].op = "cleanup") =>
        days = IF calls[1].option = NoOption THEN DEFAULT_DAYS ELSE calls[1].option

\* --------------------------------------------------- invocations side by side
\* C24: two ensureLocked(p, S) invocations that run one after the other never
\* fail and leave p locked; an invocation fails only when its file system calls
\* are mixed with those of the other.
C24_OneAfterTheOtherNeverFails ==
    procs # <<>> =>
        \A x \in Invocations :
            /\ (procs[x].at = "raised") =>
                  \E y \in Invocations : procs[y].mixed
            /\ (Over(procs[x]) /\ \A y \in Invocations :
                                     ~procs[y].mixed /\ (procs[y].started => Over(procs[y]))) =>
                  /\ procs[x].err = "none"
                  /\ Hardlinked(store, share, procs[x].path)

\* C24 witness: both invocations found the same store entry missing and both
\* went to create it: one created it and returned true, the other failed.
C24_Witness ==
    /\ procs # <<>>
    /\ \E x, y \in Invocations :
        /\ x # y
        /\ procs[x].at = "returned" /\ procs[x].ret
        /\ procs[y].at = "raised" /\ procs[y].err = "OSError"
        /\ procs[x].absent \cap procs[y].absent # {}

\* ------------------------------------------------------------- constructors
\* C25: constructing a Share fails with IOError when the path does not exist or
\* is no directory, and succeeds for an existing directory.
C25_ShareNeedsDirectory ==
    \A k \in CallIdx :
        calls[k].op = "Share" =>
            (calls[k].err = "IOError" <=> ~isdir(calls[k].share, calls[k].path))

\* C26: older_than(d) is true exactly when the time since the mtime of the file
\* exceeds d days, whatever the change time of the file.
C26_StrictElapsedTime ==
    \A k \in CallIdx :
        (calls[k].op = "older_than" /\ calls[k].err = "none") =>
            (calls[k].ret <=> calls[k].mtime > calls[k].days * HalfDaysPerDay)

\* ------------------------------------------------------ directories as targets
\* C27: lock(D) for a directory D of a share ends with every regular file below
\* D, at any depth, hardlinked in the store at its relative path, and unlock(D)
\* ends with none of them hardlinked there.
C27_DirectoryTarget ==
    \A k \in CallIdx : \A d \in AllPaths :
        (/\ calls[k].op \in {"lock", "unlock"}
         /\ calls[k].path = <<IF d = Root THEN SharePath ELSE abspath(d)>>
         /\ isdir(calls[k].share, d)) =>
            /\ Returned(calls[k])
            /\ \A q \in RelPaths :
                (IsPrefix(d, q) /\ isfile(calls[k].share, q)) =>
                    (Hardlinked(calls[k].after, calls[k].share, q)
                        <=> calls[k].op = "lock")

\* ------------------------------------------------------------ traverse_path
\* C28: traverse_path on a path of n pieces yields n strings.  The k-th is the
\* path up to its k-th separator, which is the first k pieces joined by the
\* separator; the last is the path itself; the loops of check_link and
\* ensure_link take the last one and no other for the leaf.  For pieces of one
\* character each the yields are the prefixes of the sequence of the names.
C28_TraversePath ==
    \A k \in CallIdx :
        calls[k].op = "traverse_path" =>
            LET path == calls[k].path
                ret == calls[k].ret
                n == Cardinality(SepAt(path)) + 1
            IN  /\ Len(ret) = n
                /\ \A i \in 1..n :
                     /\ IsPrefix(ret[i], path)
                     /\ Cardinality(SepAt(ret[i])) = i - 1
                     /\ i < n => path[Len(ret[i]) + 1] = Sep
                /\ ret[n] = path
                /\ calls[k].leaves = {n}
                /\ (\A i \in 1..n : Len(path_split(path)[i]) = 1) =>
                     /\ Len(split(path)) = n
                     /\ \A i \in 1..n :
                          split(ret[i]) = traverse_path(split(path))[i]

\* C28 witness: 'a/b/a' gave 'a', 'a/b', 'a/b/a', the third being the leaf.
C28_Witness ==
    \E k \in CallIdx :
        /\ calls[k].op = "traverse_path"
        /\ calls[k].path = <<"a", Sep, "b", Sep, "a">>
        /\ calls[k].ret = <<(<<"a">>), <<"a", Sep, "b">>, <<"a", Sep, "b", Sep, "a">>>>
        /\ calls[k].leaves = {3}

\* ----------------------------------------------------------------- SmbNode
\* C29: SmbNode.lock of a regular file p of the share that has no entry at
\* Store/p puts the hardlink at Store/p, also when it found a stray file on the
\* way; SmbNode.unlock of the same file right after it returns the file as
\* unlocked and leaves no entry at Store/p, at any depth of p.
C29_SmbLockUnlockInverse ==
    \A k \in CallIdx :
        (/\ calls[k].op = "smb_lock"
         /\ isfile(calls[k].share, calls[k].path)
         /\ ~exists(calls[k].before, calls[k].path)) =>
            /\ Returned(calls[k])
            /\ calls[k].ret = <<calls[k].path>>
            /\ Hardlinked(calls[k].after, calls[k].share, calls[k].path)
            /\ (k + 1 \in CallIdx /\ calls[k + 1].op = "smb_unlock") =>
                 /\ Returned(calls[k + 1])
                 /\ calls[k + 1].ret = <<calls[k].path>>
                 /\ ~exists(calls[k + 1].after, calls[k].path)

\* ------------------------------------------------------- the second loop
\* C30: the second loop of cleanup raises nothing and comes to the end of the
\* files it listed: when the pass is over every regular file of the listing has
\* been evaluated, none is left, and none was evaluated twice.
C30_PhaseTwoRunsToEnd ==
    /\ pc # "failed_phase2"
    /\ pc \in {"phase2", "done"} => done2 \cap todo = {}
    /\ pc = "done" => (todo = {} /\ \A p \in RelPaths : isfile(share, p) => p \in done2)

\* ------------------------------------------------------- sequences of calls
\* C31: whatever lock and unlock calls were made, on whatever targets and
\* whatever the store held, the share tree is the one each call found: no node
\* of it was created, removed, replaced or given another inode.  The tree a
\* call changes is the one of the directory that Share.store names.
C31_ShareUntouched ==
    \A k \in CallIdx :
        calls[k].op \in {"lock", "unlock"} =>
            /\ calls[k].share = share
            /\ \A p \in AllPaths : share[p] = calls[1].share[p]

\* C31 witness: an unlock that removed the hardlink of c after a lock that had
\* replaced a directory with a file in it by that hardlink.
C31_Witness ==
    /\ Len(calls) = 2
    /\ calls[1].op = "lock" /\ calls[2].op = "unlock"
    /\ calls[1].path = <<abspath(<<"a">>)>> /\ calls[2].path = <<abspath(<<"a">>)>>
    /\ isfile(calls[1].before, <<"a", "b">>)
    /\ Hardlinked(calls[1].after, share, <<"a">>)
    /\ ~exists(store, <<"a">>)
    /\ isfile(share, <<"a">>)

\* ------------------------------------------------------ the other locks
\* the paths that ensure_link(p) may touch: those on the way to p, p itself and
\* what the store holds below p
OnTheWay(q, p) == IsPrefix(q, p) \/ IsPrefix(p, q)

\* C32 as claimed: after ensureLocked(p, S) the store entry at every path q
\* other than p is the one from before the call.
C32_OtherEntriesSame ==
    \A k \in CallIdx :
        calls[k].op = "ensure_link" =>
            \A q \in RelPaths \ {calls[k].path} :
                calls[k].after[q] = calls[k].before[q]

\* C32, amended: ensureLocked(p, S) leaves the store entry at every path that is
\* neither on the way to p nor below p as it was, and for every regular file q
\* of the share other than p the store entry at q and isLocked(q, S) are the
\* same before and after the call.  Directories on the way to p are created, a
\* regular file in their place is replaced by a directory, and what the store
\* held below p is removed with the directory at p.
C32_OtherLocksUndisturbed ==
    \A k \in CallIdx :
        calls[k].op = "ensure_link" =>
            LET p == calls[k].path
                b == calls[k].before
                a == calls[k].after
                sh == calls[k].share
            IN  /\ \A q \in RelPaths : ~OnTheWay(q, p) => a[q] = b[q]
                /\ \A q \in RelPaths \ {p} :
                     isfile(sh, q) =>
                        /\ a[q] = b[q]
                        /\ (exists(a, q) <=> exists(b, q))
                        /\ via_store(a, check_link(a, q, sh[q])).ret
                             = via_store(b, check_link(b, q, sh[q])).ret
                        /\ via_store(a, check_link(a, q, sh[q])).err
                             = via_store(b, check_link(b, q, sh[q])).err

\* C32 witness: the share file a was locked where the store held a directory a
\* with a file in it, while c was locked; the directory went with its file, and
\* c is locked as before.
C32_Witness ==
    \E k \in CallIdx :
        /\ calls[k].op = "ensure_link"
        /\ calls[k].path = <<"a">>
        /\ isfile(calls[k].before, <<"a", "b">>)
        /\ ~exists(calls[k].after, <<"a", "b">>)
        /\ Hardlinked(calls[k].before, calls[k].share, <<"c">>)
        /\ Hardlinked(calls[k].after, calls[k].share, <<"c">>)
        /\ Hardlinked(calls[k].after, calls[k].share, <<"a">>)

\* ------------------------------------------------- the store as a mirror
\* the store before the first call
StoreAtStart == IF calls = <<>> THEN store ELSE calls[1].before

\* every call so far was a lock or an unlock of a regular file of the share
OnShareFiles ==
    \A k \in CallIdx :
        /\ calls[k].op \in {"lock", "unlock"}
        /\ \E p \in UserPaths :
            isfile(share, p) /\ calls[k].path = <<abspath(p)>>

\* the last call for the share file p was a lock
LockedLast(p) ==
    \E k \in CallIdx :
        /\ calls[k].op = "lock"
        /\ calls[k].path = <<abspath(p)>>
        /\ \A j \in CallIdx : j > k => calls[j].path # <<abspath(p)>>

\* C33: from an existing empty store, after any sequence of lock and unlock
\* calls on regular files of the share, every regular file of the store has the
\* inode of the regular share file at its relative path, and the share files
\* that are locked are those whose last call was a lock.  No call fails.
C33_StoreMirrorsHardlinks ==
    (StoreAtStart \in Trees(DirNode, {}) /\ OnShareFiles) =>
        /\ \A k \in CallIdx : Returned(calls[k])
        /\ \A q \in RelPaths :
            isfile(store, q) => (isfile(share, q) /\ store[q].ino = share[q].ino)
        /\ \A p \in UserPaths :
            isfile(share, p) => (Hardlinked(store, share, p) <=> LockedLast(p))

\* C33 witness: a/b was locked first and unlocked last; the store holds the
\* empty directory a, and the share file c, never locked, has no hardlink.
C33_Witness ==
    /\ StoreAtStart \in Trees(DirNode, {})
    /\ OnShareFiles
    /\ Len(calls) = MaxCalls
    /\ calls[1].op = "lock" /\ calls[1].path = <<abspath(<<"a", "b">>)>>
    /\ calls[MaxCalls].op = "unlock" /\ calls[MaxCalls].path = <<abspath(<<"a", "b">>)>>
    /\ isdir(store, <<"a">>) /\ ~exists(store, <<"a", "b">>)
    /\ isfile(share, <<"c">>) /\ ~Hardlinked(store, share, <<"c">>)

\* ------------------------------------------------------- share resolution
\* C34: a lock or unlock call resolves its target to the share only when the
\* share directory is the target or a directory above it, and the relative path
\* of the node it gets, joined to the path of the share, is the target again; a
\* path in a directory next to the share whose name begins with the name of
\* the share resolves to no share.
C34_ResolutionByComponents ==
    \A k \in CallIdx :
        (calls[k].op \in {"lock", "unlock"}
            /\ path_exists(calls[k].share, calls[k].path[1])) =>
            LET t == calls[k].path[1]
                g == get_path(calls[k].share, t)
            IN  g.err = "none" =>
                    /\ Below(t)
                    /\ t = (IF g.node = <<>> THEN SharePath ELSE abspath(g.node))

\* ------------------------------------------------- cleanup next to a lock
\* C35: while a lock of the share file p makes its file system calls between
\* those of the second loop of cleanup, cleanup removes no share file at a
\* moment when the store holds the hardlink of that file.
C35_NoRemovalWhileLocked ==
    \A k \in CallIdx :
        calls[k].op = "cleanup_remove" => ~calls[k].locked

====
